---- MODULE Spec2Model ----
(***************************************************************************)
(* The natural-language-to-SQL pipeline of portal-academico-ai:            *)
(*   - the academic graph (src/src/graph/academic_graph.py) with its       *)
(*     stages tavily_search, sql_generator (the NL2SQL revision loop),     *)
(*     query_validator, dba_guard and executor;                            *)
(*   - sanitize_and_parameterize_sql / execute_query and the database      *)
(*     function execute_secured_query they call;                           *)
(*   - agente_processamento, the error-feedback retry of the backend.      *)
(*                                                                         *)
(* Text (SQL statements, questions, generator answers, values) is a        *)
(* sequence of tokens; a Python substring test is a test for a contiguous  *)
(* sub-sequence, str.replace is the left-to-right replacement of one       *)
(* sub-sequence by another.  Tokens are split wherever the code matches    *)
(* inside a lexeme: "{{RA}}" is the five tokens { { RA } } because the     *)
(* code also looks for "{RA}", and "m.ra = ?" is m. ra = ? because the     *)
(* code also looks for "ra = ?".                                           *)
(***************************************************************************)
EXTENDS Integers, Sequences, FiniteSets, TLC

-----------------------------------------------------------------------------
(* Text helpers *)

\* Python: p in s
Contains(s, p) ==
    \E i \in 1..(Len(s) - Len(p) + 1) : SubSeq(s, i, i + Len(p) - 1) = p

\* Python: s.replace(p, r), scanning left to right; done is the text already written
RECURSIVE ReplaceFrom(_, _, _, _)
ReplaceFrom(done, s, p, r) ==
    IF Len(p) = 0 \/ Len(s) < Len(p) THEN done \o s
    ELSE IF SubSeq(s, 1, Len(p)) = p
         THEN ReplaceFrom(done \o r, SubSeq(s, Len(p) + 1, Len(s)), p, r)
         ELSE ReplaceFrom(Append(done, s[1]), Tail(s), p, r)

ReplaceAll(s, p, r) == ReplaceFrom(<<>>, s, p, r)

\* Python: str.lower() on one token
LowerTok(t) ==
    CASE t = "SELECT" -> "select"
      [] t = "COUNT"  -> "count"
      [] t = "FROM"   -> "from"
      [] t = "WHERE"  -> "where"
      [] t = "LIMIT"  -> "limit"
      [] t = "DROP"   -> "drop"
      [] t = "TABLE"  -> "table"
      [] t = "RA"     -> "ra"
      [] OTHER        -> t

\* Python: s.lower()
Lower(s) == [i \in DOMAIN s |-> LowerTok(s[i])]

\* Python: str.upper() on one token of a reviewer answer
UpperTok(t) ==
    CASE t = "aceito"    -> "ACEITO"
      [] t = "rejeitado" -> "REJEITADO"
      [] OTHER           -> t

\* Python: s.upper()
Upper(s) == [i \in DOMAIN s |-> UpperTok(s[i])]

\* Tokens that are not matched by the regular expression \w+
NonWordTokens ==
    {"{", "}", "'", "=", "?", ";", "--", "(", ")", "*", ",", "m.", "d.id",
     ":ra", ":RA", ":user_id", ":periodo_atual", ":disciplina_id",
     ":matricula", ":complete", ":dummy"}

IsWord(t) == t \notin NonWordTokens

\* Tokens matched by \d+
IsDigits(t) == t \in {"1", "10", "100"}

\* The quoted literal '<value>' of a Python f-string f"'{value}'"
Quoted(v) == <<"'">> \o v \o <<"'">>

\* The placeholder {{name}} and the single-brace form {name}
Placeholder2(name) == <<"{", "{", name, "}", "}">>
Placeholder1(name) == <<"{", name, "}">>

\* The parameter reference :name
ParamRef(name) == ":" \o name

-----------------------------------------------------------------------------
(* Python dicts, in insertion order: a sequence of [k, v] entries *)

Has(m, k) == \E i \in DOMAIN m : m[i].k = k
Get(m, k) == m[CHOOSE i \in DOMAIN m : m[i].k = k].v
Put(m, k, v) ==
    IF Has(m, k)
    THEN [i \in DOMAIN m |-> IF m[i].k = k THEN [k |-> k, v |-> v] ELSE m[i]]
    ELSE Append(m, [k |-> k, v |-> v])
Del(m, k) == SelectSeq(m, LAMBDA e : e.k # k)
Keys(m) == {m[i].k : i \in DOMAIN m}

-----------------------------------------------------------------------------
(* sanitize_and_parameterize_sql *)

\* The identity bound when the context holds neither user_id nor RA
\* (user_id is never a local of the function, so the literal is used).
DefaultRA == <<"201268">>

\* The identity value the two RA branches bind
IdentityValue(user_context) ==
    IF Has(user_context, "user_id") THEN Get(user_context, "user_id")
    ELSE IF Has(user_context, "RA") THEN Get(user_context, "RA")
    ELSE DefaultRA

\* The loop over user_context.items() that binds every {{key}} left
RECURSIVE BindContextKeys(_, _)
BindContextKeys(sp, items) ==
    IF items = <<>> THEN sp
    ELSE LET e == Head(items)
             next == IF Contains(sp.sql, Placeholder2(e.k))
                     THEN [sql    |-> ReplaceAll(sp.sql, Placeholder2(e.k), <<ParamRef(e.k)>>),
                           params |-> Put(sp.params, e.k, e.v)]
                     ELSE sp
         IN BindContextKeys(next, Tail(items))

sanitize_and_parameterize_sql(sql, user_context) ==
    LET \* "{RA}" in sql: all three branches replace it by :ra
        BindSingleBraceRA(sp) ==
            IF Contains(sp.sql, Placeholder1("RA"))
            THEN [sql    |-> ReplaceAll(sp.sql, Placeholder1("RA"), <<":ra">>),
                  params |-> Put(sp.params, "ra", IdentityValue(user_context))]
            ELSE sp
        \* "m.ra = ?" in sql or "ra = ?" in sql
        BindQuestionMarkRA(sp) ==
            IF Contains(sp.sql, <<"m.", "ra", "=", "?">>) \/ Contains(sp.sql, <<"ra", "=", "?">>)
            THEN [sp EXCEPT !.params = Put(@, "ra", IdentityValue(user_context))]
            ELSE sp
        \* {{user_id}}
        BindUserId(sp) ==
            IF Contains(sp.sql, Placeholder2("user_id"))
               /\ (Has(user_context, "user_id") \/ Has(user_context, "RA"))
            THEN [sql    |-> ReplaceAll(sp.sql, Placeholder2("user_id"), <<":user_id">>),
                  params |-> Put(sp.params, "user_id",
                                 IF Has(user_context, "user_id")
                                 THEN Get(user_context, "user_id")
                                 ELSE Get(user_context, "RA"))]
            ELSE sp
        \* {{periodo_atual}}, {{disciplina_id}}, {{RA}}: bound when the context holds the key
        BindKey(sp, key) ==
            IF Contains(sp.sql, Placeholder2(key)) /\ Has(user_context, key)
            THEN [sql    |-> ReplaceAll(sp.sql, Placeholder2(key), <<ParamRef(key)>>),
                  params |-> Put(sp.params, key, Get(user_context, key))]
            ELSE sp
        \* every value of the model is a string already, so str(value) changes none;
        \* an empty params gets the dummy parameter
        Finish(sp) ==
            IF sp.params = <<>>
            THEN [sp EXCEPT !.params = <<[k |-> "dummy", v |-> <<"1">>]>>]
            ELSE sp
    IN  Finish(
          BindContextKeys(
            BindKey(
              BindKey(
                BindKey(
                  BindUserId(
                    BindQuestionMarkRA(
                      BindSingleBraceRA([sql |-> sql, params |-> <<>>]))),
                  "periodo_atual"),
                "disciplina_id"),
              "RA"),
            user_context))

-----------------------------------------------------------------------------
(* execute_query: the statement text it builds *)

\* re.sub(r'\bLIMIT\s+\d+\s*;?$', '', sql): case-sensitive, at the end only
StripTrailingLimit(sql) ==
    LET n == Len(sql)
    IN  IF n >= 3 /\ sql[n] = ";" /\ IsDigits(sql[n - 1]) /\ sql[n - 2] = "LIMIT"
        THEN SubSeq(sql, 1, n - 3)
        ELSE IF n >= 2 /\ IsDigits(sql[n]) /\ sql[n - 1] = "LIMIT"
             THEN SubSeq(sql, 1, n - 2)
             ELSE sql

\* for key, value in params.items(): final_query.replace(f":{key}", f"'{value}'")
RECURSIVE SubstituteParams(_, _)
SubstituteParams(q, items) ==
    IF items = <<>> THEN q
    ELSE SubstituteParams(ReplaceAll(q, <<ParamRef(Head(items).k)>>, Quoted(Head(items).v)),
                          Tail(items))

\* re.findall(r'\{(\w+)\}', final_query), scanning left to right
RECURSIVE BraceVarsFrom(_, _)
BraceVarsFrom(found, q) ==
    IF Len(q) < 3 THEN found
    ELSE IF q[1] = "{" /\ IsWord(q[2]) /\ q[3] = "}"
         THEN BraceVarsFrom(Append(found, q[2]), SubSeq(q, 4, Len(q)))
         ELSE BraceVarsFrom(found, Tail(q))

BraceVars(q) == BraceVarsFrom(<<>>, q)

\* for var in variables: replace {var} by the quoted parameter, or by user_id for RA
RECURSIVE SubstituteBraceVars(_, _, _, _)
SubstituteBraceVars(q, vars, params, user_id) ==
    IF vars = <<>> THEN q
    ELSE LET var   == Head(vars)
             found == Has(params, LowerTok(var)) \/ Has(params, var) \/ var \in {"RA", "ra"}
             value == IF Has(params, LowerTok(var)) THEN Get(params, LowerTok(var))
                      ELSE IF Has(params, var) THEN Get(params, var)
                      ELSE user_id
             next  == IF found THEN ReplaceAll(q, Placeholder1(var), Quoted(value)) ELSE q
         IN SubstituteBraceVars(next, Tail(vars), params, user_id)

\* The "d.id = ?" branch: bound to a course name found in the text, else dropped
DisciplinaName(q) ==
    IF Contains(q, <<"Sistemas Operacionais">>) THEN <<"Sistemas Operacionais">>
    ELSE IF Contains(q, <<"Banco de Dados">>) THEN <<"Banco de Dados">>
    ELSE IF Contains(q, <<"Calculo">>) THEN <<"Calculo I">>
    ELSE IF Contains(q, <<"Teoria">>) /\ Contains(q, <<"Computacao">>) THEN <<"Teoria da Computacao">>
    ELSE IF Contains(q, <<"Algoritmos">>) THEN <<"Algoritmos">>
    ELSE IF Contains(q, <<"Engenharia">>) /\ Contains(q, <<"Software">>) THEN <<"Engenharia de Software">>
    ELSE <<>>

ReplaceDisciplinaId(q) ==
    IF ~Contains(q, <<"d.id", "=", "?">>) THEN q
    ELSE IF DisciplinaName(q) # <<>>
         THEN ReplaceAll(q, <<"d.id", "=", "?">>, <<"d.nome", "=">> \o Quoted(DisciplinaName(q)))
         ELSE ReplaceAll(q, <<"AND", "d.id", "=", "?">>, <<>>)

\* The '?' branch: returns the text and the params (params["ra"] is deleted)
ReplaceQuestionMarks(q, params) ==
    IF ~Contains(q, <<"?">>) THEN [query_text |-> q, params |-> params]
    ELSE LET a == IF Has(params, "ra")
                  THEN ReplaceAll(
                         ReplaceAll(q, <<"m.", "ra", "=", "?">>,
                                    <<"m.", "ra", "=">> \o Quoted(Get(params, "ra"))),
                         <<"ra", "=", "?">>, <<"ra", "=">> \o Quoted(Get(params, "ra")))
                  ELSE q
             \* re.sub(r'\s*=\s*\?', " IS NOT NULL", final_query)
             b == ReplaceAll(a, <<"=", "?">>, <<"IS", "NOT", "NULL">>)
         IN [query_text |-> b, params |-> Del(params, "ra")]

\* final_query and the params left, as execute_query has them when it calls the RPC
FinalQuery(sql, params, user_id) ==
    LET q1 == StripTrailingLimit(sql)
        q2 == SubstituteParams(q1, params)
        q3 == SubstituteBraceVars(q2, BraceVars(q2), params, user_id)
        q4 == ReplaceDisciplinaId(q3)
    IN  ReplaceQuestionMarks(q4, params)

\* rpc_params: the statement text, "params": "{}" and the user id
RpcParams(final_query, user_id) ==
    [query_text |-> final_query, params |-> <<>>, user_id |-> user_id]

-----------------------------------------------------------------------------
(* The database function execute_secured_query *)

\* query_text ~* '(;|--|/\*|\*/|@@|@|COPY|FILE|EXECUTE|GRANT|REVOKE|TRUNCATE|DROP|CREATE|ALTER)'
DangerousTokens ==
    {";", "--", "/*", "*/", "@@", "@", "copy", "file", "execute", "grant",
     "revoke", "truncate", "drop", "create", "alter"}

\* Sensitivity variant of SecuredQueryRejects: the dangerous-pattern check left out
SecuredQueryRejects_without_pattern_check(rpc) ==
    \/ ~(Len(rpc.query_text) >= 2 /\ LowerTok(rpc.query_text[1]) = "select")
    \/ (Has(rpc.params, "user_id")
        /\ ~Contains(Lower(rpc.query_text), <<"user_id", "=", ":user_id">>))

\* The three security checks: TRUE when the function raises before EXECUTE
SecuredQueryRejects(rpc) ==
    \/ ~(Len(rpc.query_text) >= 2 /\ LowerTok(rpc.query_text[1]) = "select")
    \/ \E i \in DOMAIN rpc.query_text : LowerTok(rpc.query_text[i]) \in DangerousTokens
    \/ (Has(rpc.params, "user_id")
        /\ ~Contains(Lower(rpc.query_text), <<"user_id", "=", ":user_id">>))

\* What execute_secured_query does with a call that passes the checks:
\* it runs the statement and returns rows, or the database raises
\* (an unknown column, a timeout, a user_id that is no UUID).
PlainRA == <<"12345">>
QuoteRA == <<"1", "'", "OR", "1">>

DbRow == [kind |-> "faltas", val |-> "3", ra |-> PlainRA, disciplina_nome |-> "Calculo I"]
DbData == {<<>>, <<DbRow>>}

RpcOutcomes(rpc) ==
    IF SecuredQueryRejects(rpc)
    THEN {[raised |-> TRUE, executed |-> FALSE, data |-> <<>>]}
    ELSE {[raised |-> FALSE, executed |-> TRUE, data |-> d] : d \in DbData}
         \cup {[raised |-> TRUE, executed |-> TRUE, data |-> <<>>]}

-----------------------------------------------------------------------------
(* execute_query: what it returns *)

\* The "simulated response" of the except branch, chosen from the text of sql
SimulatedFaltas(sql) ==
    IF Contains(sql, <<"Sistemas Operacionais">>) THEN [nome |-> "Sistemas Operacionais", faltas |-> "1"]
    ELSE IF Contains(sql, <<"Banco de Dados">>) THEN [nome |-> "Banco de Dados", faltas |-> "0"]
    ELSE IF Contains(sql, <<"Calculo">>) THEN [nome |-> "Calculo I", faltas |-> "0"]
    ELSE IF Contains(sql, <<"Teoria">>) /\ Contains(sql, <<"Computacao">>)
         THEN [nome |-> "Teoria da Computacao", faltas |-> "1"]
    ELSE IF Contains(sql, <<"Algoritmos">>) THEN [nome |-> "Algoritmos", faltas |-> "0"]
    ELSE IF Contains(sql, <<"Engenharia">>) /\ Contains(sql, <<"Software">>)
         THEN [nome |-> "Engenharia de Software", faltas |-> "0"]
    ELSE [nome |-> "Disciplina Nao Identificada", faltas |-> "0"]

SimulatedResponse(sql, params, user_id) ==
    LET ra == IF Has(params, "ra") THEN Get(params, "ra") ELSE user_id
    IN  IF Contains(sql, <<"matriculas">>) /\ Contains(sql, <<"faltas">>)
        THEN <<[kind |-> "faltas", val |-> SimulatedFaltas(sql).faltas, ra |-> ra,
                disciplina_nome |-> SimulatedFaltas(sql).nome]>>
        ELSE IF Contains(sql, <<"notas">>)
        THEN <<[kind |-> "valor", val |-> "8.5", ra |-> ra, disciplina_nome |-> ""]>>
        ELSE IF Contains(sql, <<"financeiro">>) /\ Contains(sql, <<"pix">>)
        THEN <<[kind |-> "count", val |-> "3", ra |-> <<>>, disciplina_nome |-> ""]>>
        ELSE IF Contains(sql, <<"financeiro">>) /\ Contains(sql, <<"vencido">>)
        THEN <<[kind |-> "boleto", val |-> "349.99", ra |-> user_id, disciplina_nome |-> ""]>>
        ELSE <<>>

\* The rows execute_query returns for one outcome of the RPC
execute_query(sql, params, user_id, outcome) ==
    IF outcome.raised
    THEN SimulatedResponse(sql, FinalQuery(sql, params, user_id).params, user_id)
    ELSE outcome.data   \* response.data or []

-----------------------------------------------------------------------------
(* dba_guard: the statement it writes back *)

\* re.search(r"select\s+count\s*\(", sql.lower())
HasSelectCount(l) ==
    \E i \in 1..(Len(l) - 2) : l[i] = "select" /\ l[i + 1] = "count" /\ l[i + 2] = "("

\* Python: w in text, for a word that may lie inside a longer token
SubwordPairs == {<<"limite_faltas", "limit">>, <<"selecionado", "select">>}
InText(w, s) == \E i \in DOMAIN s : s[i] = w \/ <<s[i], w>> \in SubwordPairs

\* sql.rstrip(";")
RECURSIVE RStripSemicolons(_)
RStripSemicolons(s) ==
    IF s # <<>> /\ s[Len(s)] = ";" THEN RStripSemicolons(SubSeq(s, 1, Len(s) - 1)) ELSE s

DefaultRowCap == <<"LIMIT", "100", ";">>

\* Sensitivity variant of GuardedSql: the semicolon is appended whatever the
\* statement ends with
GuardedSql_always_terminating(sql) ==
    LET l == Lower(sql)
        a == IF ~InText("limit", l) /\ InText("select", l) /\ ~HasSelectCount(l)
             THEN RStripSemicolons(sql) \o DefaultRowCap
             ELSE sql
    IN  Append(a, ";")

GuardedSql(sql) ==
    LET l == Lower(sql)
        a == IF ~InText("limit", l) /\ InText("select", l) /\ ~HasSelectCount(l)
             THEN RStripSemicolons(sql) \o DefaultRowCap
             ELSE sql
    IN  IF a = <<>> \/ a[Len(a)] # ";" THEN Append(a, ";") ELSE a

-----------------------------------------------------------------------------
(* The academic graph: one session of process_query *)

VARIABLES
    pc,          \* the node of the academic graph that runs next
    state,       \* AcademicAgentState
    nl,          \* NL2SQLState, the node of the NL2SQL graph that runs next, and
                 \* qa_answer: the verdict the reviewer's last answer stated
    events,      \* history: the guard, sanitizer, reviewer and database calls made
    db_output,   \* history: the rows the database returned in this session
    cache,       \* the response cache (utils/cache.py)
    pa,          \* agente_processamento (backend): its position and counters
    now,         \* time.time(), in seconds
    callers,     \* the threads inside get_schema_info: position and locals of each
    sessions     \* concurrent calls of process_query: the node each is at, its
                 \* state, and served_by, the writer of the cache entry it was served

vars == <<pc, state, nl, events, db_output, cache, pa, now, callers, sessions>>

\* The questions of the model
QueryFaltas  == <<"quantas", "faltas", "eu", "tenho", "em", "Calculo">>
QueryFiliais == <<"quantas", "filiais", "a", "unisal", "tem">>
QueryCampus  == <<"onde", "fica", "o", "campus">>
Queries == {QueryFaltas, QueryFiliais, QueryCampus}

UserIds == {PlainRA, QuoteRA}

\* The context the caller passes to process_query
CallerContexts ==
    { <<>>,
      <<[k |-> "RA", v |-> PlainRA], [k |-> "disciplina_id", v |-> <<"d7">>]>> }

\* nl.feedback, nl.rejected and nl.critique_sql are history: the feedback in
\* the prompt of the writer's last call, the candidate the reviewer rejected
\* last, and the statement in the prompt of chief_dba's last call
NoNL ==
    [node |-> "idle", sql |-> <<>>, reflect |-> <<>>, accepted |-> FALSE,
     revision |-> 0, max_revision |-> 0, qa_answer |-> "unset",
     feedback |-> <<>>, rejected |-> <<>>, critique_sql |-> <<>>]

\* No thread is inside get_schema_info
NoCallers == <<>>

\* No other call of process_query is running
NoSessions == <<>>

NoPA ==
    [pc |-> "off", tipo_solicitacao |-> "", ra |-> <<>>, pergunta |-> <<>>,
     query_sql |-> <<>>, error_str |-> "", writer_calls |-> <<>>,
     executions |-> <<>>, result |-> [status |-> "", data |-> <<>>, message |-> ""]]

\* initial_state of process_query (user_id is added to the context)
InitialState(user_query, user_id, user_context) ==
    [user_query |-> user_query,
     user_id |-> user_id,
     user_context |-> Put(user_context, "user_id", user_id),
     error |-> "",
     from_cache |-> FALSE,
     intent |-> "",
     main_category |-> "",
     skip_sql_generation |-> FALSE,
     skip_database_query |-> FALSE,
     skip_sql_for_external_info |-> FALSE,
     web_search_context |-> FALSE,
     rag_context |-> FALSE,
     has_schema_info |-> FALSE,
     generated_sql |-> <<>>,
     validation_results |-> <<>>,
     has_query_results |-> FALSE,
     query_results |-> <<>>,
     natural_response |-> ""]

Init ==
    /\ pc = "user_context_node"
    /\ \E q \in Queries, u \in UserIds, c \in CallerContexts :
          state = InitialState(q, u, c)
    /\ nl = NoNL
    /\ events = <<>>
    /\ db_output = <<>>
    /\ cache = <<>>
    /\ pa = NoPA
    /\ now = 0
    /\ callers = NoCallers
    /\ sessions = NoSessions

Event(op, in, out, params) == [op |-> op, in |-> in, out |-> out, params |-> params]

\* state.get("error") is truthy
HasError(st) == st.error # ""

\* What the RPC get_user_context returns: a context, or none (or it fails)
DbContexts == {<<>>, <<[k |-> "periodo_atual", v |-> <<"2024.1">>]>>}

\* The state user_context_agent returns
UserContextAgentResult(st, db_context) ==
    IF HasError(st) \/ Has(st.user_context, "complete")
    THEN st
    ELSE LET c0 == IF Has(st.user_context, "user_id") THEN st.user_context
                   ELSE Put(st.user_context, "user_id", st.user_id)
             c1 == IF Has(c0, "RA") /\ ~Has(c0, "matricula")
                   THEN Put(c0, "matricula", Get(c0, "RA"))
                   ELSE c0
             \* the RPC returned a context, or it returned none or failed
             c2 == IF db_context # <<>>
                   THEN Put(c1, "periodo_atual", Get(db_context, "periodo_atual"))
                   ELSE IF Has(c1, "periodo_atual") THEN c1
                   ELSE Put(c1, "periodo_atual", <<"2023.2">>)
         IN [st EXCEPT !.user_context = Put(c2, "complete", <<"True">>)]

\* user_context_agent
user_context_agent ==
    /\ pc = "user_context_node"
    /\ pc' = "cache_check"
    /\ \E db_context \in DbContexts : state' = UserContextAgentResult(state, db_context)
    /\ UNCHANGED <<nl, events, db_output, cache, pa, now, callers, sessions>>

\* get_cache_key keeping only periodo_atual and curso_id of the context
get_cache_key_without_user_id(query, user_context) ==
    LET relevant == SelectSeq(<<"curso_id", "periodo_atual">>,
                              LAMBDA k : Has(user_context, k))
    IN [query |-> query,
        context |-> [i \in DOMAIN relevant |->
                        [k |-> relevant[i], v |-> Get(user_context, relevant[i])]]]

\* get_cache_key: the question, then the user_id, periodo_atual, curso_id of
\* the context with the keys sorted (json.dumps, sort_keys); the text
\* "query:json" determines both parts when the context holds user_id, and
\* the MD5 digest of it is taken as free of collisions
get_cache_key(query, user_context) ==
    LET relevant == SelectSeq(<<"curso_id", "periodo_atual", "user_id">>,
                              LAMBDA k : Has(user_context, k))
    IN [query |-> query,
        context |-> [i \in DOMAIN relevant |->
                        [k |-> relevant[i], v |-> Get(user_context, relevant[i])]]]

SkipCacheKeywords == {"hoje", "agora", "atual", "recente", "ultimo", "nova"}

\* cache_agent finds an entry for the question (and does not skip the cache)
CacheHit(st, c) ==
    /\ ~\E i \in DOMAIN st.user_query : st.user_query[i] \in SkipCacheKeywords
    /\ Has(c, get_cache_key(st.user_query, st.user_context))

\* The state cache_agent returns
CacheAgentResult(st, c) ==
    IF CacheHit(st, c)
    THEN LET cached_data == Get(c, get_cache_key(st.user_query, st.user_context))
         IN [st EXCEPT !.query_results = cached_data.query_results,
                       !.has_query_results = TRUE,
                       !.natural_response = cached_data.natural_response,
                       !.from_cache = TRUE]
    ELSE [st EXCEPT !.from_cache = FALSE]

\* cache_agent, and the conditional edge route_from_cache
cache_agent ==
    /\ pc = "cache_check"
    /\ state' = CacheAgentResult(state, cache)
    /\ pc' = IF CacheHit(state, cache) THEN "response_generator" ELSE "main_router"
    /\ UNCHANGED <<nl, events, db_output, cache, pa, now, callers, sessions>>

\* The branch main_router_agent returns for a category
RouteOf(category) ==
    IF category \in {"emotional_support", "tutor", "planning"} THEN category
    ELSE "intent_router"

Categories == {"academic", "emotional_support", "tutor", "planning"}

\* One call of the classifier by main_router_agent (llm.invoke), as an event
Classification(query) == Event("main_router_agent", query, <<>>, <<>>)

\* main_router_agent run as the node: the category is recorded, or "academic"
\* when the answer does not parse
main_router_node ==
    /\ pc = "main_router"
    /\ pc' = "main_router_edge"
    /\ IF HasError(state) \/ state.from_cache
       THEN UNCHANGED <<state, events>>
       ELSE /\ \E category \in Categories :
                  state' = [state EXCEPT !.main_category = category]
            /\ events' = Append(events, Classification(state.user_query))
    /\ UNCHANGED <<nl, db_output, cache, pa, now, callers, sessions>>

\* main_router_agent run again by the conditional edge, which takes its "next"
main_router_edge ==
    /\ pc = "main_router_edge"
    /\ IF HasError(state) \/ state.from_cache
       THEN pc' = "intent_router" /\ UNCHANGED <<state, events>>
       ELSE /\ \E category \in Categories :
                  /\ state' = [state EXCEPT !.main_category = category]
                  /\ pc' = RouteOf(category)
            /\ events' = Append(events, Classification(state.user_query))
    /\ UNCHANGED <<nl, db_output, cache, pa, now, callers, sessions>>

\* emotional_support_agent, tutor_agent, planning_agent: an answer or an error
specialized_agent ==
    /\ pc \in {"emotional_support", "tutor", "planning"}
    /\ pc' = "response_generator"
    /\ \E ok \in BOOLEAN :
          state' = IF ok THEN [state EXCEPT !.natural_response = "resposta"]
                   ELSE [state EXCEPT !.error = "Error in specialized agent"]
    /\ UNCHANGED <<nl, events, db_output, cache, pa, now, callers, sessions>>

\* intent_router: the intent of the answer, "faltas" when it does not parse,
\* an error when the generator call raises
intent_router ==
    /\ pc = "intent_router"
    /\ pc' = "tavily_search"
    /\ IF HasError(state) \/ state.from_cache
       THEN state' = state
       ELSE \E outcome \in {"faltas", "raise"} :
               state' = IF outcome = "raise"
                        THEN [state EXCEPT !.error = "Error in intent classification"]
                        ELSE [state EXCEPT !.intent = outcome]
    /\ UNCHANGED <<nl, events, db_output, cache, pa, now, callers, sessions>>

\* Python: any(keyword in text for keyword in keywords); a keyword is a token sequence
AnyIn(keywords, text) == \E kw \in keywords : Contains(text, kw)

SpecificKeywords ==
    {<<"filial">>, <<"filiais">>, <<"unidade">>, <<"unidades">>, <<"campus">>, <<"campi">>,
     <<"sede">>, <<"sedes">>, <<"extensao">>, <<"curso", "livre">>, <<"cursos", "livres">>,
     <<"especializacao">>, <<"pos-graduacao">>, <<"workshop">>, <<"palestra">>, <<"evento">>,
     <<"eventos">>, <<"calendario">>, <<"programacao">>, <<"intercambio">>,
     <<"internacional">>, <<"exterior">>, <<"estrangeiro">>}

ExternalInfoKeywords ==
    {<<"unisal">>, <<"universidade">>, <<"faculdade">>, <<"curso">>, <<"cursos">>,
     <<"campus">>, <<"campi">>, <<"unidade">>, <<"centro", "universitario">>,
     <<"salesiano">>, <<"salesiana">>, <<"vestibular">>, <<"processo", "seletivo">>,
     <<"bolsa">>, <<"bolsas">>, <<"enade">>, <<"mec">>, <<"ranking">>, <<"nota">>}

CalculoNotaPatterns ==
    {<<"como", "calcular">>, <<"formula">>, <<"como", "funciona", "o", "calculo">>}

GeneralInfoKeywords ==
    {<<"como", "funciona">>, <<"onde", "fica">>, <<"quando">>, <<"por", "que">>,
     <<"missao">>, <<"valores">>, <<"contato">>, <<"telefone">>, <<"email">>, <<"site">>,
     <<"redes", "sociais">>, <<"curso">>, <<"cursos">>, <<"campus">>, <<"campi">>,
     <<"universidade">>, <<"faculdade">>}

\* should_use_tavily: every branch that sets metadata returns True, so the
\* result alone is modelled here; the metadata flag is SkipSqlForExternalInfo
should_use_tavily(st) ==
    /\ ~(HasError(st) \/ st.from_cache)
    /\ \/ AnyIn(SpecificKeywords, st.user_query)
       \/ AnyIn(ExternalInfoKeywords, st.user_query)
       \/ (AnyIn(CalculoNotaPatterns, st.user_query) /\ AnyIn({<<"media">>}, st.user_query))

QuantityPatterns ==
    {<<"quantas">>, <<"quantos">>, <<"numero", "de">>, <<"total", "de">>, <<"possui">>,
     <<"tem">>, <<"existem">>, <<"disponivel">>, <<"aberto">>}

\* metadata["skip_sql_for_external_info"] as should_use_tavily sets it
SkipSqlForExternalInfo(st) ==
    \/ AnyIn(SpecificKeywords, st.user_query)
    \/ (AnyIn(ExternalInfoKeywords, st.user_query) /\ AnyIn(QuantityPatterns, st.user_query))

\* The three keyword groups for which integrate_tavily_search forces skip_sql_generation
ForceSkipSql(query) ==
    \/ AnyIn({<<"filial">>, <<"filiais">>, <<"unidade">>, <<"unidades">>, <<"campus">>, <<"campi">>}, query)
    \/ AnyIn({<<"extensao">>, <<"curso", "livre">>, <<"cursos", "livres">>}, query)
    \/ AnyIn({<<"intercambio">>, <<"internacional">>, <<"exterior">>}, query)

\* integrate_tavily_search: the search succeeds, or extract_search_query or
\* perform_web_search raises (the except branch sets no error)
integrate_tavily_search ==
    /\ pc = "tavily_search"
    /\ pc' = "rag_retrieval"
    /\ IF ~should_use_tavily(state)
       THEN state' = state
       ELSE \E outcome \in {"ok", "extract_raises", "search_raises"} :
              LET s1 == [state EXCEPT !.skip_sql_for_external_info = SkipSqlForExternalInfo(state)]
                  s2 == IF ForceSkipSql(state.user_query)
                        THEN [s1 EXCEPT !.skip_sql_generation = TRUE,
                                        !.skip_sql_for_external_info = TRUE]
                        ELSE s1
                  s3 == [s2 EXCEPT !.web_search_context = TRUE]
                  s4 == IF AnyIn(GeneralInfoKeywords, state.user_query)
                        THEN [s3 EXCEPT !.query_results = <<>>,
                                        !.has_query_results = TRUE,
                                        !.skip_sql_generation = TRUE,
                                        !.skip_database_query = TRUE]
                        ELSE s3
              IN state' = CASE outcome = "extract_raises" -> s1
                            [] outcome = "search_raises"  -> s2
                            [] OTHER                      -> s4
    /\ UNCHANGED <<nl, events, db_output, cache, pa, now, callers, sessions>>

\* rag_agent: a context when chunks are found, nothing when none are found or
\* the retrieval raises (the except branch sets no error)
rag_agent ==
    /\ pc = "rag_retrieval"
    /\ pc' = "schema_retriever"
    /\ IF HasError(state) \/ state.from_cache
       THEN state' = state
       ELSE \E found \in BOOLEAN : state' = [state EXCEPT !.rag_context = found]
    /\ UNCHANGED <<nl, events, db_output, cache, pa, now, callers, sessions>>

\* schema_retriever: the snapshot of get_schema_info, or an error when it raises
schema_retriever ==
    /\ pc = "schema_retriever"
    /\ pc' = "sql_generator"
    /\ IF HasError(state) \/ state.from_cache
       THEN state' = state
       ELSE \E ok \in BOOLEAN :
              state' = IF ok THEN [state EXCEPT !.has_schema_info = TRUE]
                       ELSE [state EXCEPT !.error = "Error retrieving schema information"]
    /\ UNCHANGED <<nl, events, db_output, cache, pa, now, callers, sessions>>

-----------------------------------------------------------------------------
(* The NL2SQL graph: search_engineer, sql_writer, qa_engineer, chief_dba *)

\* max_revision of the state nl2sql_agent starts the graph with
MaxRevision == 2

StmtFaltas == <<"SELECT", "faltas", "FROM", "matriculas", "WHERE", "ra", "=">> \o Placeholder2("RA")
StmtNotas == <<"SELECT", "valor", "FROM", "notas", "WHERE", "ra", "=", "?">>
StmtDisciplina ==
    <<"SELECT", "nome", "FROM", "disciplinas", "WHERE", "id", "=">> \o Placeholder2("disciplina_id")
StmtCount ==
    <<"SELECT", "COUNT", "(", "*", ")", "FROM", "matriculas", "WHERE", "ra", "=">> \o Placeholder1("RA")
StmtDrop == <<"DROP", "TABLE", "alunos">>
StmtMulti == <<"SELECT", "nome", "FROM", "alunos", ";", "DROP", "TABLE", "alunos">>
StmtStar == <<"SELECT", "*", "FROM", "notas">>
StmtLimite == <<"SELECT", "limite_faltas", "FROM", "disciplinas">>

\* A fenced code block: FENCE_SQL is the opening fence with the sql tag, FENCE a bare fence
Fenced(stmt) == <<"FENCE_SQL">> \o stmt \o <<"FENCE">>

\* What the generator may answer to the writer's prompt
WriterAnswers ==
    {Fenced(StmtFaltas), StmtNotas, StmtDisciplina, Fenced(StmtCount), StmtDrop,
     Fenced(StmtMulti), <<>>}

\* The first index at or after i where text holds token t, 0 when there is none
RECURSIVE IndexFrom(_, _, _)
IndexFrom(text, t, i) ==
    IF i > Len(text) THEN 0
    ELSE IF text[i] = t THEN i
    ELSE IndexFrom(text, t, i + 1)

\* nl2sql_agent.extract_sql_from_response
extract_sql_from_response(response_text) ==
    LET open_sql == IndexFrom(response_text, "FENCE_SQL", 1)
        close_sql == IF open_sql = 0 THEN 0 ELSE IndexFrom(response_text, "FENCE", open_sql + 1)
        open_any == IndexFrom(response_text, "FENCE", 1)
        close_any == IF open_any = 0 THEN 0 ELSE IndexFrom(response_text, "FENCE", open_any + 1)
        sel == IndexFrom(Lower(response_text), "select", 1)
        semi == IF sel = 0 THEN 0 ELSE IndexFrom(response_text, ";", sel + 1)
    IN  IF close_sql # 0 THEN SubSeq(response_text, open_sql + 1, close_sql - 1)
        ELSE IF close_any # 0 THEN SubSeq(response_text, open_any + 1, close_any - 1)
        ELSE IF sel # 0 /\ sel < Len(response_text)
             THEN SubSeq(response_text, sel, IF semi = 0 THEN Len(response_text) ELSE semi - 1)
        ELSE response_text

\* What the generator may answer to the reviewer's prompt
QaAnswers == {<<"ACEITO">>, <<"REJEITADO">>, <<"talvez">>}

\* is_accepted = 'ACEITO' in response.content.upper()
QaAccepts(answer) == Contains(Upper(answer), <<"ACEITO">>)

\* The verdict the reviewer's answer states, "none" when it states none
QaVerdict(answer) ==
    IF Contains(Upper(answer), <<"ACEITO">>) THEN "accept"
    ELSE IF Contains(Upper(answer), <<"REJEITADO">>) THEN "reject"
    ELSE "none"

Critiques == {<<"use", "ILIKE">>}

\* Sensitivity variant of should_continue_revision: the ceiling compared with > for >=
should_continue_revision_off_by_one(n) ==
    IF n.accepted \/ n.revision > n.max_revision THEN "end" ELSE "revise"

\* should_continue_revision, and the lambda of the conditional edge
should_continue_revision(n) ==
    IF n.accepted \/ n.revision >= n.max_revision THEN "end" ELSE "revise"

\* The except branch of nl2sql_agent
NL2SQLRaises ==
    /\ state' = [state EXCEPT !.error = "Error in NL2SQL agent"]
    /\ nl' = NoNL
    /\ pc' = "query_validator"
    /\ UNCHANGED events

\* nl2sql_agent up to the start of the graph
nl2sql_agent ==
    /\ pc = "sql_generator" /\ nl.node = "idle"
    /\ IF HasError(state) \/ state.from_cache \/ state.skip_sql_generation
       THEN /\ state' = IF state.skip_sql_generation
                        THEN [state EXCEPT !.generated_sql = <<"SELECT", "1", "AS", "dummy">>]
                        ELSE state
            /\ pc' = "query_validator"
            /\ nl' = nl
       ELSE /\ nl' = [NoNL EXCEPT !.node = "search_engineer",
                                  !.max_revision = MaxRevision]
            /\ UNCHANGED <<pc, state>>
    /\ UNCHANGED <<events, db_output, cache, pa, now, callers, sessions>>

search_engineer_node ==
    /\ pc = "sql_generator" /\ nl.node = "search_engineer"
    /\ \E ok \in BOOLEAN :
          IF ok THEN nl' = [nl EXCEPT !.node = "sql_writer"] /\ UNCHANGED <<pc, state, events>>
          ELSE NL2SQLRaises
    /\ UNCHANGED <<db_output, cache, pa, now, callers, sessions>>

\* Sensitivity variant of WriterRevision: the writer returns the count it was given
WriterRevision_not_incremented(n) == n.revision

\* The revision count the writer returns
WriterRevision(n) == n.revision + 1

\* Sensitivity variant of WriterFeedback: the prompt carries no feedback
WriterFeedback_without_reflect(n) == <<>>

\* The feedback the writer puts into its prompt: every entry of reflect
WriterFeedback(n) == n.reflect

senior_sql_writer_node ==
    /\ pc = "sql_generator" /\ nl.node = "sql_writer"
    /\ \/ \E answer \in WriterAnswers :
             /\ nl' = [nl EXCEPT !.sql = extract_sql_from_response(answer),
                                 !.revision = WriterRevision(nl),
                                 !.feedback = WriterFeedback(nl),
                                 !.node = "qa_engineer"]
             /\ UNCHANGED <<pc, state, events>>
       \/ NL2SQLRaises
    /\ UNCHANGED <<db_output, cache, pa, now, callers, sessions>>

senior_qa_engineer_node ==
    /\ pc = "sql_generator" /\ nl.node = "qa_engineer"
    /\ \/ \E answer \in QaAnswers :
             LET n == [nl EXCEPT !.accepted = QaAccepts(answer),
                                 !.qa_answer = QaVerdict(answer)]
             IN /\ nl' = IF should_continue_revision(n) = "end"
                          THEN [n EXCEPT !.node = "end"]
                          ELSE [n EXCEPT !.node = "chief_dba", !.rejected = n.sql]
                /\ UNCHANGED <<pc, state, events>>
       \/ NL2SQLRaises
    /\ UNCHANGED <<db_output, cache, pa, now, callers, sessions>>

chief_dba_node ==
    /\ pc = "sql_generator" /\ nl.node = "chief_dba"
    /\ \/ \E critique \in Critiques :
             /\ nl' = [nl EXCEPT !.reflect = <<critique>>, !.critique_sql = nl.sql,
                                 !.node = "sql_writer"]
             /\ UNCHANGED <<pc, state, events>>
       \/ NL2SQLRaises
    /\ UNCHANGED <<db_output, cache, pa, now, callers, sessions>>

\* Sensitivity variant of nl2sql_finish: a loop that ended without acceptance is an error
nl2sql_finish_failing_on_exhaustion ==
    /\ pc = "sql_generator" /\ nl.node = "end"
    /\ state' = IF nl.accepted THEN [state EXCEPT !.generated_sql = nl.sql]
                 ELSE [state EXCEPT !.error = "Error in NL2SQL agent"]
    /\ pc' = "query_validator"
    /\ nl' = [nl EXCEPT !.rejected = <<>>, !.critique_sql = <<>>]
    /\ UNCHANGED <<events, db_output, cache, pa, now, callers, sessions>>

\* nl2sql_agent after the graph has ended: final_state.values['sql']; the final
\* state of the graph stays with its thread, the history of the prompts of
\* the run (nl.rejected, nl.critique_sql) ends with the run
nl2sql_finish ==
    /\ pc = "sql_generator" /\ nl.node = "end"
    /\ state' = [state EXCEPT !.generated_sql = nl.sql]
    /\ pc' = "query_validator"
    /\ nl' = [nl EXCEPT !.rejected = <<>>, !.critique_sql = <<>>]
    /\ UNCHANGED <<events, db_output, cache, pa, now, callers, sessions>>

-----------------------------------------------------------------------------
(* query_validator, dba_guard, executor_agent *)

\* What the generator may answer to the validator's prompt: text that is no
\* JSON ("unparseable"), a JSON object, or no answer at all ("raise")
ValidatorAnswers ==
    { [kind |-> "raise", is_valid |-> TRUE, issues |-> <<>>,
       has_corrected_sql |-> FALSE, corrected_sql |-> <<>>],
      [kind |-> "unparseable", is_valid |-> FALSE, issues |-> <<>>,
       has_corrected_sql |-> FALSE, corrected_sql |-> <<>>],
      [kind |-> "object", is_valid |-> TRUE, issues |-> <<>>,
       has_corrected_sql |-> FALSE, corrected_sql |-> <<>>],
      [kind |-> "object", is_valid |-> FALSE, issues |-> <<"schema">>,
       has_corrected_sql |-> TRUE, corrected_sql |-> StmtStar],
      [kind |-> "object", is_valid |-> FALSE, issues |-> <<"column">>,
       has_corrected_sql |-> TRUE, corrected_sql |-> StmtLimite],
      [kind |-> "object", is_valid |-> FALSE, issues |-> <<"security">>,
       has_corrected_sql |-> FALSE, corrected_sql |-> <<>>] }

\* validation_result: json.loads of the answer, or the default of the except branch
ValidationResult(answer, generated_sql) ==
    IF answer.kind = "unparseable"
    THEN [kind |-> "unparseable", is_valid |-> TRUE, issues |-> <<>>,
          has_corrected_sql |-> TRUE, corrected_sql |-> generated_sql]
    ELSE answer

query_validator ==
    /\ pc = "query_validator"
    /\ pc' = "dba_guard"
    /\ IF HasError(state) \/ state.from_cache \/ state.skip_sql_generation
       THEN /\ state' = IF state.skip_sql_generation
                        THEN [state EXCEPT !.validation_results = <<>>]
                        ELSE state
            /\ UNCHANGED events
       ELSE \E answer \in ValidatorAnswers :
              IF answer.kind = "raise"
              THEN /\ state' = [state EXCEPT !.error = "Error validating SQL"]
                   /\ UNCHANGED events
              ELSE LET r == ValidationResult(answer, state.generated_sql)
                   IN /\ state' = [state EXCEPT
                                     !.validation_results = r.issues,
                                     !.generated_sql = IF ~r.is_valid /\ r.has_corrected_sql
                                                       THEN r.corrected_sql ELSE @]
                      /\ events' = Append(events,
                                          Event("query_validator", <<answer.kind>>,
                                                <<IF r.is_valid THEN "accepted" ELSE "rejected">>,
                                                <<>>))
    /\ UNCHANGED <<nl, db_output, cache, pa, now, callers, sessions>>

\* Sensitivity variant of dba_guard: it also returns at once when SQL generation was skipped
dba_guard_skipping_dummy ==
    /\ pc = "dba_guard"
    /\ pc' = "executor"
    /\ IF HasError(state) \/ state.from_cache \/ state.skip_sql_generation
       THEN UNCHANGED <<state, events>>
       ELSE /\ state' = [state EXCEPT !.generated_sql = GuardedSql(state.generated_sql)]
            /\ events' = Append(events, Event("dba_guard", state.generated_sql,
                                              GuardedSql(state.generated_sql), <<>>))
    /\ UNCHANGED <<nl, db_output, cache, pa, now, callers, sessions>>

dba_guard ==
    /\ pc = "dba_guard"
    /\ pc' = "executor"
    /\ IF HasError(state) \/ state.from_cache
       THEN UNCHANGED <<state, events>>
       ELSE /\ state' = [state EXCEPT !.generated_sql = GuardedSql(state.generated_sql)]
            /\ events' = Append(events, Event("dba_guard", state.generated_sql,
                                              GuardedSql(state.generated_sql), <<>>))
    /\ UNCHANGED <<nl, db_output, cache, pa, now, callers, sessions>>

\* Sensitivity variant of ExecutorSkips: an error recorded upstream does not stop the executor
ExecutorSkips_ignoring_error(st) == st.from_cache \/ st.skip_database_query

\* The condition on which executor_agent returns without touching the database
ExecutorSkips(st) == HasError(st) \/ st.from_cache \/ st.skip_database_query

\* The events of one run of the executor: the sanitizer, execute_query with the
\* text and params it builds, the RPC, and the EXECUTE inside the database
ExecutorEvents(generated_sql, sp, final, outcome) ==
    << Event("sanitize", generated_sql, sp.sql, sp.params),
       Event("execute_query", sp.sql, final.query_text, sp.params),
       Event("rpc", final.query_text, <<IF outcome.raised THEN "raised" ELSE "returned">>, <<>>) >>
    \o IF outcome.executed
       THEN <<Event("db_execute", final.query_text, <<>>, <<>>)>>
       ELSE <<>>

executor_agent ==
    /\ pc = "executor"
    /\ pc' = "response_generator"
    /\ IF ExecutorSkips(state)
       THEN /\ state' = IF state.skip_database_query /\ ~state.has_query_results
                        THEN [state EXCEPT !.query_results = <<>>, !.has_query_results = TRUE]
                        ELSE state
            /\ UNCHANGED <<events, db_output>>
       ELSE LET sp    == sanitize_and_parameterize_sql(state.generated_sql, state.user_context)
                final == FinalQuery(sp.sql, sp.params, state.user_id)
                rpc   == RpcParams(final.query_text, state.user_id)
            IN \E outcome \in RpcOutcomes(rpc) :
                  /\ state' = [state EXCEPT
                                 !.query_results =
                                     execute_query(sp.sql, sp.params, state.user_id, outcome),
                                 !.has_query_results = TRUE]
                  /\ events' = events \o ExecutorEvents(state.generated_sql, sp, final, outcome)
                  /\ db_output' = db_output \o (IF outcome.raised THEN <<>> ELSE outcome.data)
    /\ UNCHANGED <<nl, cache, pa, now, callers, sessions>>

-----------------------------------------------------------------------------
(* response_generator, cache_update, logger *)

\* augmented_response_agent
AugmentedResponseResult(st, ok) ==
    IF st.natural_response # "" THEN st
    ELSE IF HasError(st)
    THEN [st EXCEPT !.natural_response = "resposta de erro"]
    ELSE IF st.skip_sql_for_external_info /\ ~st.web_search_context
    THEN [st EXCEPT !.natural_response = "resposta de fallback"]
    ELSE IF ~(st.rag_context \/ st.web_search_context \/ st.query_results # <<>>)
    THEN st
    ELSE IF ok THEN [st EXCEPT !.natural_response = "resposta"]
    ELSE [st EXCEPT !.error = "Error generating augmented response",
                    !.natural_response = "resposta de erro"]

augmented_response_agent ==
    /\ pc = "response_generator"
    /\ pc' = "cache_update"
    /\ \E ok \in BOOLEAN : state' = AugmentedResponseResult(state, ok)
    /\ UNCHANGED <<nl, events, db_output, cache, pa, now, callers, sessions>>

RealTimeIntents == {"presenca_hoje", "notas_recentes", "avisos_novos"}

\* Sensitivity variant of UpdateCacheResult: only real-time intents are skipped
UpdateCacheResult_writing_always(st, c) ==
    IF st.intent \in RealTimeIntents
    THEN c
    ELSE Put(c, get_cache_key(st.user_query, st.user_context),
             [query_results |-> st.query_results,
              natural_response |-> st.natural_response,
              intent |-> IF st.intent = "" THEN "unknown" ELSE st.intent,
              written_by |-> st.user_id])

\* The cache update_cache leaves; written_by is history: the user_id of the
\* session that wrote the entry
UpdateCacheResult(st, c) ==
    IF HasError(st) \/ st.from_cache \/ st.intent \in RealTimeIntents
    THEN c
    ELSE Put(c, get_cache_key(st.user_query, st.user_context),
             [query_results |-> st.query_results,
              natural_response |-> st.natural_response,
              intent |-> IF st.intent = "" THEN "unknown" ELSE st.intent,
              written_by |-> st.user_id])

update_cache ==
    /\ pc = "cache_update"
    /\ pc' = "logger"
    /\ cache' = UpdateCacheResult(state, cache)
    /\ UNCHANGED <<state, nl, events, db_output, pa, now, callers, sessions>>

logger_agent ==
    /\ pc = "logger"
    /\ pc' = "END"
    /\ UNCHANGED <<state, nl, events, db_output, cache, pa, now, callers, sessions>>

Next ==
    \/ user_context_agent
    \/ cache_agent
    \/ main_router_node
    \/ main_router_edge
    \/ specialized_agent
    \/ intent_router
    \/ integrate_tavily_search
    \/ rag_agent
    \/ schema_retriever
    \/ nl2sql_agent
    \/ search_engineer_node
    \/ senior_sql_writer_node
    \/ senior_qa_engineer_node
    \/ chief_dba_node
    \/ nl2sql_finish
    \/ query_validator
    \/ dba_guard
    \/ executor_agent
    \/ augmented_response_agent
    \/ update_cache
    \/ logger_agent

Spec == Init /\ [][Next]_vars

-----------------------------------------------------------------------------
(* agente_processamento (backend): generate, execute, regenerate once with  *)
(* the error folded into the question, then the contingency query           *)

\* pa.writer_calls is the history of the questions handed to gerar_query_sql,
\* pa.executions the history of the statements handed to conn.execute, each
\* with what the database did with it.

DbRequestTypes ==
    {"consultar_boletos", "consultar_notas", "consultar_faltas", "consultar_disciplinas",
     "consultar_coordenador", "consultar_optativas"}
RequestTypes == DbRequestTypes \cup {"consultar_unisal", "pergunta_geral"}

\* The types that need no RA
NoRATypes == {"consultar_coordenador", "consultar_optativas"}

\* The simplified query gerar_query_sql falls back to
SimpleQuery(ra) ==
    <<"SELECT", "disciplina.nome", "FROM", "disciplina", "JOIN", "matricula", "ON",
      "disciplina.id", "=", "matricula.disciplina_id", "WHERE", "matricula.ra", "=">> \o Quoted(ra)

\* What llm_consulta.invoke and validar_query_sql give gerar_query_sql: a
\* statement that survives validation, one that validation empties, or an exception
GeneratedAnswers ==
    { [kind |-> "valid", sql |-> <<"SELECT", "nota", "FROM", "nota", "WHERE", "ra", "=", "RA">>],
      [kind |-> "valid", sql |-> <<"SELECT", "nome", "FROM", "disciplina", "JOIN", "aluno", "ON">>],
      [kind |-> "empty", sql |-> <<>>],
      [kind |-> "raise", sql |-> <<>>] }

\* gerar_query_sql: the statement it returns, <<>> for None
gerar_query_sql(answer, ra) ==
    IF answer.kind = "valid" THEN answer.sql
    ELSE IF answer.kind = "empty" THEN SimpleQuery(ra)
    ELSE IF ra # <<>> THEN SimpleQuery(ra)
    ELSE <<>>

\* get_fallback_query: the template of the request type, <<>> for None
get_fallback_query(tipo_solicitacao, ra) ==
    IF ra = <<>> THEN <<>>
    ELSE IF tipo_solicitacao \in DbRequestTypes
    THEN <<"SELECT", "TEMPLATE", tipo_solicitacao, "WHERE", "ra", "=">> \o Quoted(ra)
    ELSE <<>>

\* What conn.execute(...).fetchall() does: rows, no rows, or an exception
\* whose text str(sql_error) is one of these
ErrorTexts == {"column does not exist", "argument of JOIN/ON must be type boolean",
               "unterminated quoted string", "syntax error", "permission denied"}
ExecutionOutcomes ==
    {[kind |-> "rows", error_str |-> ""], [kind |-> "empty", error_str |-> ""]}
    \cup {[kind |-> "raise", error_str |-> e] : e \in ErrorTexts}

\* error_feedback and extra_instructions, as folded into the second question
ErrorFeedback(error_str) ==
    <<"Erro na SQL:">> \o
    (CASE error_str = "column does not exist" -> <<"A coluna nao existe">>
       [] error_str = "argument of JOIN/ON must be type boolean" -> <<"JOIN incompleto">>
       [] error_str = "unterminated quoted string" -> <<"Aspas nao fechadas">>
       [] error_str = "syntax error" -> <<"Erro de sintaxe SQL">>
       [] OTHER -> <<>>)
ExtraInstructions(error_str) ==
    CASE error_str = "argument of JOIN/ON must be type boolean" -> <<"cada JOIN completo">>
      [] error_str = "syntax error" -> <<"query completa">>
      [] OTHER -> <<>>
RetryQuestion(error_str, pergunta) ==
    <<"IMPORTANTE:">> \o ErrorFeedback(error_str) \o ExtraInstructions(error_str) \o pergunta

PAResult(status, data, message) == [status |-> status, data |-> data, message |-> message]
\* resultados_formatados: the rows the database returns for a statement
PARows(sql) == <<[of |-> sql, val |-> "1"]>>

\* One entry of pa.executions
Executed(sql, outcome) ==
    [sql |-> sql, kind |-> outcome.kind,
     rows |-> IF outcome.kind = "rows" THEN PARows(sql) ELSE <<>>]

\* The result of an execution that raised nothing
FetchedResult(sql, outcome, message) ==
    IF outcome.kind = "rows" THEN PAResult("success", PARows(sql), message)
    ELSE PAResult("empty", <<>>, "Nenhum dado encontrado para esta consulta.")


\* The parameters of one call of agente_processamento
PAQuestions == {<<"quais", "sao", "minhas", "notas">>}
PARAs == {<<>>, PlainRA, QuoteRA}

InitPA ==
    /\ pc = "END"
    /\ state = InitialState(QueryFaltas, PlainRA, <<>>)
    /\ nl = NoNL
    /\ events = <<>>
    /\ db_output = <<>>
    /\ cache = <<>>
    /\ \E t \in RequestTypes, r \in PARAs, q \in PAQuestions :
          pa = [NoPA EXCEPT !.pc = "start", !.tipo_solicitacao = t, !.ra = r, !.pergunta = q]
    /\ now = 0
    /\ callers = NoCallers
    /\ sessions = NoSessions

PADone(result) == pa' = [pa EXCEPT !.pc = "done", !.result = result]

\* agente_processamento up to the first call of gerar_query_sql; the RAG and
\* the general-question branches run to their return
agente_processamento ==
    /\ pa.pc = "start"
    /\ IF pa.tipo_solicitacao \in DbRequestTypes
       THEN IF pa.ra = <<>> /\ pa.tipo_solicitacao \notin NoRATypes
            THEN PADone(PAResult("error", <<>>, "Por favor, informe seu RA"))
            ELSE pa' = [pa EXCEPT !.pc = "writer1"]
       ELSE IF pa.tipo_solicitacao = "consultar_unisal"
       THEN \E ok \in BOOLEAN :
              PADone(IF ok THEN PAResult("success", <<>>, "Informacoes encontradas via RAG.")
                     ELSE PAResult("error", <<>>, "Erro ao buscar informacoes sobre a UNISAL."))
       ELSE \E ok \in BOOLEAN :
              PADone(IF ok THEN PAResult("success", <<>>, "Resposta gerada com IA.")
                     ELSE PAResult("error", <<>>, "Nao consegui gerar uma resposta no momento."))
    /\ UNCHANGED <<pc, state, nl, events, db_output, cache, now, callers, sessions>>

\* query_sql = gerar_query_sql(pergunta, ra), and the branch taken when it is None
first_generation ==
    /\ pa.pc = "writer1"
    /\ \E answer \in GeneratedAnswers :
          LET q == gerar_query_sql(answer, pa.ra)
              c == get_fallback_query(pa.tipo_solicitacao, pa.ra)
              called == [pa EXCEPT !.writer_calls = Append(@, pa.pergunta)]
          IN  IF q # <<>>
              THEN pa' = [called EXCEPT !.query_sql = q, !.pc = "exec1"]
              ELSE IF c # <<>>
              THEN pa' = [called EXCEPT !.query_sql = c, !.pc = "contingency"]
              ELSE pa' = [called EXCEPT !.pc = "done",
                                        !.result = PAResult("error", <<>>,
                                                            "Nao foi possivel gerar a consulta SQL.")]
    /\ UNCHANGED <<pc, state, nl, events, db_output, cache, now, callers, sessions>>

\* conn.execute(text(query_sql)) of the first statement
first_execution ==
    /\ pa.pc = "exec1"
    /\ \E outcome \in ExecutionOutcomes :
          LET ran == [pa EXCEPT !.executions = Append(@, Executed(pa.query_sql, outcome))]
          IN  IF outcome.kind = "raise"
              THEN pa' = [ran EXCEPT !.error_str = outcome.error_str, !.pc = "writer2"]
              ELSE pa' = [ran EXCEPT !.pc = "done",
                                     !.result = FetchedResult(pa.query_sql, outcome, "Dados encontrados com sucesso.")]
    /\ UNCHANGED <<pc, state, nl, events, db_output, cache, now, callers, sessions>>

\* The except branch: gerar_query_sql again, with the error folded into the question
second_generation ==
    /\ pa.pc = "writer2"
    /\ \E answer \in GeneratedAnswers :
          LET q == gerar_query_sql(answer, pa.ra)
              called == [pa EXCEPT !.writer_calls = Append(@, RetryQuestion(pa.error_str, pa.pergunta))]
          IN  IF q # <<>>
              THEN pa' = [called EXCEPT !.query_sql = q, !.pc = "exec2"]
              ELSE pa' = [called EXCEPT !.pc = "done",
                                        !.result = PAResult("error", <<>>,
                                                            "Erro ao consultar o banco de dados.")]
    /\ UNCHANGED <<pc, state, nl, events, db_output, cache, now, callers, sessions>>

\* Sensitivity variant of second_execution: a failure goes back to the writer
second_execution_retrying ==
    /\ pa.pc = "exec2"
    /\ \E outcome \in ExecutionOutcomes :
          LET ran == [pa EXCEPT !.executions = Append(@, Executed(pa.query_sql, outcome))]
          IN  IF outcome.kind # "raise"
              THEN pa' = [ran EXCEPT !.pc = "done",
                                     !.result = FetchedResult(pa.query_sql, outcome,
                                                  "Dados encontrados com sucesso (segunda tentativa).")]
              ELSE pa' = [ran EXCEPT !.error_str = outcome.error_str, !.pc = "writer2"]
    /\ UNCHANGED <<pc, state, nl, events, db_output, cache, now, callers, sessions>>

\* conn.execute(text(query_sql)) of the regenerated statement
second_execution ==
    /\ pa.pc = "exec2"
    /\ \E outcome \in ExecutionOutcomes :
          LET ran == [pa EXCEPT !.executions = Append(@, Executed(pa.query_sql, outcome))]
              c == get_fallback_query(pa.tipo_solicitacao, pa.ra)
          IN  IF outcome.kind # "raise"
              THEN pa' = [ran EXCEPT !.pc = "done",
                                     !.result = FetchedResult(pa.query_sql, outcome,
                                                  "Dados encontrados com sucesso (segunda tentativa).")]
              ELSE IF c # <<>>
              THEN pa' = [ran EXCEPT !.query_sql = c, !.pc = "contingency"]
              ELSE pa' = [ran EXCEPT !.pc = "done",
                                     !.result = PAResult("error", <<>>,
                                                         "Erro ao consultar o banco de dados.")]
    /\ UNCHANGED <<pc, state, nl, events, db_output, cache, now, callers, sessions>>

\* Sensitivity variant of contingency_execution: the fetched rows are not returned
contingency_execution_dropping_rows ==
    /\ pa.pc = "contingency"
    /\ \E outcome \in ExecutionOutcomes :
          LET ran == [pa EXCEPT !.executions = Append(@, Executed(pa.query_sql, outcome)),
                                !.pc = "done"]
          IN  IF outcome.kind # "raise"
              THEN pa' = [ran EXCEPT !.result =
                            PAResult("empty", <<>>, "Nenhum dado encontrado para esta consulta.")]
              ELSE pa' = [ran EXCEPT !.result =
                            PAResult("error", <<>>, "Erro ao consultar o banco de dados.")]
    /\ UNCHANGED <<pc, state, nl, events, db_output, cache, now, callers, sessions>>

\* Sensitivity variant of contingency_execution: a failure is reported as an empty result
contingency_execution_reporting_empty ==
    /\ pa.pc = "contingency"
    /\ \E outcome \in ExecutionOutcomes :
          LET ran == [pa EXCEPT !.executions = Append(@, Executed(pa.query_sql, outcome)),
                                !.pc = "done"]
          IN  IF outcome.kind # "raise"
              THEN pa' = [ran EXCEPT !.result = FetchedResult(pa.query_sql, outcome,
                                        "Dados encontrados com sucesso (usando query de contingencia).")]
              ELSE pa' = [ran EXCEPT !.result =
                            PAResult("empty", <<>>, "Nenhum dado encontrado para esta consulta.")]
    /\ UNCHANGED <<pc, state, nl, events, db_output, cache, now, callers, sessions>>

\* conn.execute(text(contingency_query))
contingency_execution ==
    /\ pa.pc = "contingency"
    /\ \E outcome \in ExecutionOutcomes :
          LET ran == [pa EXCEPT !.executions = Append(@, Executed(pa.query_sql, outcome)), !.pc = "done"]
          IN  IF outcome.kind # "raise"
              THEN pa' = [ran EXCEPT !.result = FetchedResult(pa.query_sql, outcome,
                                        "Dados encontrados com sucesso (usando query de contingencia).")]
              ELSE pa' = [ran EXCEPT !.result =
                            PAResult("error", <<>>,
                                     IF pa.error_str # "" THEN "Erro ao consultar o banco de dados."
                                     ELSE "Nao foi possivel gerar a consulta SQL.")]
    /\ UNCHANGED <<pc, state, nl, events, db_output, cache, now, callers, sessions>>

NextPA ==
    \/ agente_processamento
    \/ first_generation
    \/ first_execution
    \/ second_generation
    \/ second_execution
    \/ contingency_execution

SpecPA == InitPA /\ [][NextPA]_vars

-----------------------------------------------------------------------------
(* sanitize_and_parameterize_sql and execute_query as functions of their    *)
(* arguments: executor_agent applied to any statement and any context       *)

StmtJoin ==
    <<"SELECT", "valor", "FROM", "notas", "WHERE", "m.", "ra", "=", "?",
      "AND", "d.id", "=", "?">>
StmtPeriodo ==
    <<"SELECT", "valor", "FROM", "notas", "WHERE", "ra", "=", "?",
      "AND", "periodo", "=", "?">>

\* The sql argument
SanitizerStatements ==
    {StmtFaltas, StmtNotas, StmtDisciplina, StmtCount, StmtStar, StmtLimite,
     StmtJoin, StmtPeriodo, GuardedSql(StmtStar)}

\* The user_context argument: with user_id, with RA, with both, with neither
SanitizerContexts ==
    { <<>>,
      <<[k |-> "periodo_atual", v |-> <<"2024.1">>]>>,
      <<[k |-> "user_id", v |-> PlainRA]>>,
      <<[k |-> "user_id", v |-> QuoteRA]>>,
      <<[k |-> "RA", v |-> PlainRA]>>,
      <<[k |-> "RA", v |-> PlainRA], [k |-> "user_id", v |-> QuoteRA],
        [k |-> "disciplina_id", v |-> <<"d7">>]>> }

InitSanitizer ==
    /\ pc = "executor"
    /\ \E sql \in SanitizerStatements, c \in SanitizerContexts, u \in UserIds :
          state = [InitialState(QueryFaltas, u, <<>>) EXCEPT
                      !.user_context = c, !.generated_sql = sql]
    /\ nl = NoNL
    /\ events = <<>>
    /\ db_output = <<>>
    /\ cache = <<>>
    /\ pa = NoPA
    /\ now = 0
    /\ callers = NoCallers
    /\ sessions = NoSessions

NextSanitizer == executor_agent

SpecSanitizer == InitSanitizer /\ [][NextSanitizer]_vars

-----------------------------------------------------------------------------
(* dba_guard as a function of the state it is given: applied to any         *)
(* statement, and again to the state it returned                            *)

\* The number of times dba_guard is applied to one state
MaxGuardCalls == 2

\* The generated_sql of the state: plain, aggregate, already capped, already
\* terminated, naming limite_faltas, not a SELECT, empty
GuardStatements ==
    {StmtFaltas, StmtNotas, StmtCount, StmtStar, StmtLimite, StmtDrop, StmtMulti,
     StmtFaltas \o <<";">>, StmtFaltas \o <<";", ";">>, StmtCount \o <<";">>,
     StmtFaltas \o <<"LIMIT", "10">>, StmtFaltas \o <<"limit", "10", ";">>,
     <<>>, <<";">>}

InitGuard ==
    /\ pc = "dba_guard"
    /\ \E sql \in GuardStatements, u \in UserIds,
          e \in {"", "Error in NL2SQL agent"} :
          state = [InitialState(QueryFaltas, u, <<>>) EXCEPT
                      !.generated_sql = sql, !.error = e]
    /\ nl = NoNL
    /\ events = <<>>
    /\ db_output = <<>>
    /\ cache = <<>>
    /\ pa = NoPA
    /\ now = 0
    /\ callers = NoCallers
    /\ sessions = NoSessions

\* The state dba_guard returned is handed to dba_guard once more
dba_guard_again ==
    /\ pc = "executor"
    /\ Len(events) < MaxGuardCalls
    /\ pc' = "dba_guard"
    /\ UNCHANGED <<state, nl, events, db_output, cache, pa, now, callers, sessions>>

NextGuard ==
    \/ dba_guard
    \/ dba_guard_again

SpecGuard == InitGuard /\ [][NextGuard]_vars

-----------------------------------------------------------------------------
(* get_schema_info (database/supabase_client.py): calls against the cache   *)
(* of utils/cache.py                                                        *)

\* settings.py, in seconds
CACHE_TTL == 3600
SCHEMA_CACHE_TTL == 86400

\* The instants at which the model looks at the clock
Instants == {0, 1800, 7200, 90000}

SchemaCacheKey == "db_schema"

\* What the database describes when introspection works
LiveSchema == [tables |-> <<"alunos", "notas", "matriculas">>]

\* What the RPC returns when the database function finds no table
EmptySchema == [tables |-> <<>>]

\* The return value of the outer except branch of get_schema_info
MinimalSchema == [tables |-> <<>>, error |-> "Error fetching schema"]

get_fallback_schema ==
    [tables |-> <<"alunos", "matriculas", "disciplinas", "periodos_letivos", "financeiro">>]

\* The RPC get_schema_info: it returns data (with tables or without), returns a
\* response with error set, or raises
SchemaRpcOutcomes == {"data", "empty", "error", "raise"}

\* The queries on information_schema: tables are listed and described, no table
\* is listed, or a query raises
SchemaDirectOutcomes == {"tables", "no_tables", "raise"}

\* cache.get and cache.set of diskcache: the call returns, or it raises
CacheCallOutcomes == {"ok", "raise"}

get_schema_info_direct(direct) ==
    IF direct = "tables" THEN LiveSchema ELSE get_fallback_schema

\* The try block inside get_schema_info: the RPC, else the direct queries
IntrospectedSchema(rpc, direct) ==
    IF rpc = "data" THEN LiveSchema
    ELSE IF rpc = "empty" THEN EmptySchema
    ELSE get_schema_info_direct(direct)

\* set_cache(key, data, ttl): cache_data with its timestamp, and the expire of cache.set
CacheEntry(data, t, ttl) == [timestamp |-> t, data |-> data, expire |-> ttl]

\* get_cache at time t: "miss" (no entry, or diskcache has let it lapse), "expired"
\* (older than CACHE_TTL: the entry is deleted) or "hit"
get_cache(c, key, t) ==
    IF ~Has(c, key) THEN "miss"
    ELSE IF t >= Get(c, key).timestamp + Get(c, key).expire THEN "miss"
    ELSE IF t - Get(c, key).timestamp > CACHE_TTL THEN "expired"
    ELSE "hit"

\* The entry the slot holds, as a sequence of at most one entry
StoredEntry(c, key) == IF Has(c, key) THEN <<Get(c, key)>> ELSE <<>>

\* get_schema_info at time t: what it returns (or that it raised) and the cache it leaves
get_schema_info(c, t, cache_read, rpc, direct, cache_write) ==
    LET lookup == get_cache(c, SchemaCacheKey, t)
        after_read == IF lookup = "hit" THEN c ELSE Del(c, SchemaCacheKey)
        schema_info == IntrospectedSchema(rpc, direct)
    IN  IF cache_read = "raise"
        THEN [raised |-> TRUE, value |-> <<>>, cache |-> c]
        ELSE IF lookup = "hit"
        THEN [raised |-> FALSE, value |-> Get(c, SchemaCacheKey).data, cache |-> c]
        ELSE IF cache_write = "raise"
        THEN [raised |-> FALSE, value |-> MinimalSchema, cache |-> after_read]
        ELSE [raised |-> FALSE, value |-> schema_info,
              cache |-> Put(after_read, SchemaCacheKey,
                            CacheEntry(schema_info, t, SCHEMA_CACHE_TTL))]

InitSchema ==
    /\ pc = "get_schema_info"
    /\ state = InitialState(QueryFaltas, PlainRA, <<>>)
    /\ nl = NoNL
    /\ events = <<>>
    /\ db_output = <<>>
    /\ cache = <<>>
    /\ pa = NoPA
    /\ now = 0
    /\ callers = NoCallers
    /\ sessions = NoSessions

\* The record of one call: when it was made, what the slot held, what each call
\* it made did ("unused" for a call it did not make), and what it returned
SchemaCall(c, t, cache_read, rpc, direct, cache_write) ==
    LET lookup == IF cache_read = "raise" THEN "raise" ELSE get_cache(c, SchemaCacheKey, t)
        fetched == lookup \in {"miss", "expired"}
        r == get_schema_info(c, t, cache_read, rpc, direct, cache_write)
    IN  Event("get_schema_info",
              [at |-> t, stored |-> StoredEntry(c, SchemaCacheKey), lookup |-> lookup,
               rpc |-> IF fetched THEN rpc ELSE "unused",
               direct |-> IF fetched /\ rpc \in {"error", "raise"} THEN direct ELSE "unused",
               cache_write |-> IF fetched THEN cache_write ELSE "unused"],
              [raised |-> r.raised, value |-> r.value], <<>>)

\* One call of get_schema_info: the cache lookup, the RPC, the direct queries
\* when the RPC failed, and set_cache of what was fetched; events holds the
\* record of the last call
get_schema_info_call ==
    /\ pc = "get_schema_info"
    /\ \E cache_read \in CacheCallOutcomes, rpc \in SchemaRpcOutcomes,
          direct \in SchemaDirectOutcomes, cache_write \in CacheCallOutcomes :
          /\ cache' = get_schema_info(cache, now, cache_read, rpc, direct, cache_write).cache
          /\ events' = <<SchemaCall(cache, now, cache_read, rpc, direct, cache_write)>>
    /\ UNCHANGED <<pc, state, nl, db_output, pa, now, callers, sessions>>

\* time.time() moves on between two calls
time_passes ==
    /\ pc = "get_schema_info"
    /\ \E t \in Instants : t > now /\ now' = t
    /\ UNCHANGED <<pc, state, nl, events, db_output, cache, pa, callers, sessions>>

NextSchema ==
    \/ get_schema_info_call
    \/ time_passes

SpecSchema == InitSchema /\ [][NextSchema]_vars

-----------------------------------------------------------------------------
(* get_schema_info called by concurrent sessions: each thread runs the      *)
(* function once, and the threads interleave at its calls to the cache and  *)
(* to the database                                                          *)

Threads == {1, 2}

RefreshTime == 7200

\* The slot before the calls: empty, holding a snapshot older than CACHE_TTL, or
\* holding one just written
RefreshCaches ==
    { <<>>,
      <<[k |-> SchemaCacheKey, v |-> CacheEntry(LiveSchema, 0, SCHEMA_CACHE_TTL)]>>,
      <<[k |-> SchemaCacheKey, v |-> CacheEntry(LiveSchema, RefreshTime, SCHEMA_CACHE_TTL)]>> }

CallerAt(position, schema_info, returned) ==
    [pc |-> position, schema_info |-> schema_info, returned |-> returned]

InitRefresh ==
    /\ pc = "get_schema_info"
    /\ state = InitialState(QueryFaltas, PlainRA, <<>>)
    /\ nl = NoNL
    /\ events = <<>>
    /\ db_output = <<>>
    /\ cache \in RefreshCaches
    /\ pa = NoPA
    /\ now = RefreshTime
    /\ callers = [t \in Threads |-> CallerAt("get_cache", <<>>, <<>>)]
    /\ sessions = NoSessions

\* cached_schema = get_cache(cache_key), and the return of a cached snapshot
caller_get_cache(t) ==
    /\ callers[t].pc = "get_cache"
    /\ \E cache_read \in CacheCallOutcomes :
          LET lookup == get_cache(cache, SchemaCacheKey, now)
          IN IF cache_read = "raise"
             THEN /\ callers' = [callers EXCEPT ![t] = CallerAt("raised", <<>>, <<>>)]
                  /\ cache' = cache
             ELSE IF lookup = "hit"
             THEN /\ callers' = [callers EXCEPT ![t] =
                                    CallerAt("returned", <<>>, <<Get(cache, SchemaCacheKey).data>>)]
                  /\ cache' = cache
             ELSE /\ callers' = [callers EXCEPT ![t] = CallerAt("introspect", <<>>, <<>>)]
                  /\ cache' = Del(cache, SchemaCacheKey)
    /\ UNCHANGED <<pc, state, nl, events, db_output, pa, now, sessions>>

\* The RPC, and the direct queries when it failed
caller_introspect(t) ==
    /\ callers[t].pc = "introspect"
    /\ \E rpc \in SchemaRpcOutcomes, direct \in SchemaDirectOutcomes :
          callers' = [callers EXCEPT ![t] =
                        CallerAt("set_cache", <<IntrospectedSchema(rpc, direct)>>, <<>>)]
    /\ UNCHANGED <<pc, state, nl, events, db_output, cache, pa, now, sessions>>

\* set_cache(cache_key, schema_info, SCHEMA_CACHE_TTL) and the return
caller_set_cache(t) ==
    /\ callers[t].pc = "set_cache"
    /\ \E cache_write \in CacheCallOutcomes :
          IF cache_write = "raise"
          THEN /\ callers' = [callers EXCEPT ![t] = CallerAt("returned", <<>>, <<MinimalSchema>>)]
               /\ cache' = cache
          ELSE /\ callers' = [callers EXCEPT ![t] =
                                 CallerAt("returned", <<>>, callers[t].schema_info)]
               /\ cache' = Put(cache, SchemaCacheKey,
                               CacheEntry(callers[t].schema_info[1], now, SCHEMA_CACHE_TTL))
    /\ UNCHANGED <<pc, state, nl, events, db_output, pa, now, sessions>>

NextRefresh ==
    \E t \in Threads :
        \/ caller_get_cache(t)
        \/ caller_introspect(t)
        \/ caller_set_cache(t)

SpecRefresh == InitRefresh /\ [][NextRefresh]_vars

-----------------------------------------------------------------------------
(* Concurrent sessions: calls of process_query and turns of the chat page,  *)
(* each running the graph on a state of its own and sharing the response    *)
(* cache                                                                    *)

\* sessions[i].served_by is history: the written_by of the entry cache_agent
\* served to session i; entries_seen is history: the number of entries the
\* cache held when cache_agent of session i looked its key up.

SessionIds == {1, 2}

\* The states a session starts from: initial_state of process_query, whose
\* caller passes no context, fields of its own, a user_id of its own or a
\* context marked complete; and initialize_agent_state of the chat page
\* (user_id is not in the context)
SessionStates ==
    LET queries == {QueryFaltas, QueryCampus}
        contexts ==
            CallerContexts \cup
            { <<[k |-> "periodo_atual", v |-> <<"2023.2">>], [k |-> "user_id", v |-> QuoteRA]>>,
              <<[k |-> "complete", v |-> <<"True">>], [k |-> "user_id", v |-> PlainRA]>> }
    IN { InitialState(q, u, c) : q \in queries, u \in UserIds, c \in contexts }
       \cup
       { [InitialState(q, u, <<>>) EXCEPT !.user_context = <<[k |-> "RA", v |-> u]>>] :
             q \in queries, u \in UserIds }

InitSessions ==
    /\ pc = "sessions"
    /\ state = InitialState(QueryFaltas, PlainRA, <<>>)
    /\ nl = NoNL
    /\ events = <<>>
    /\ db_output = <<>>
    /\ cache = <<>>
    /\ pa = NoPA
    /\ now = 0
    /\ callers = NoCallers
    /\ sessions \in [SessionIds -> [pc : {"user_context_node"}, st : SessionStates,
                                     served_by : {<<>>}, entries_seen : {0}]]

session_user_context_agent(i) ==
    /\ sessions[i].pc = "user_context_node"
    /\ \E db_context \in DbContexts :
          sessions' = [sessions EXCEPT
                          ![i].pc = "cache_check",
                          ![i].st = UserContextAgentResult(sessions[i].st, db_context)]
    /\ UNCHANGED <<pc, state, nl, events, db_output, cache, pa, now, callers>>

session_cache_agent(i) ==
    /\ sessions[i].pc = "cache_check"
    /\ LET st == sessions[i].st
       IN sessions' = [sessions EXCEPT
                          ![i].pc = IF CacheHit(st, cache) THEN "response_generator"
                                    ELSE "main_router",
                          ![i].st = CacheAgentResult(st, cache),
                          ![i].served_by =
                              IF CacheHit(st, cache)
                              THEN <<Get(cache, get_cache_key(st.user_query,
                                                              st.user_context)).written_by>>
                              ELSE <<>>,
                          ![i].entries_seen = Len(cache)]
    /\ UNCHANGED <<pc, state, nl, events, db_output, cache, pa, now, callers>>

\* What the nodes between main_router and response_generator leave in the
\* state of a session: an error, rows of the user under an intent that is
\* cached, or rows under a real-time intent; none writes user_query, user_id
\* or user_context
WorkflowResult(st, outcome) ==
    IF outcome = "error"
    THEN [st EXCEPT !.intent = "faltas", !.error = "Error executing query"]
    ELSE [st EXCEPT !.intent = IF outcome = "rows" THEN "faltas" ELSE "presenca_hoje",
                    !.has_query_results = TRUE,
                    !.query_results = <<[ra |-> st.user_id]>>]

session_workflow(i) ==
    /\ sessions[i].pc = "main_router"
    /\ \E outcome \in {"error", "rows", "real_time"} :
          sessions' = [sessions EXCEPT
                          ![i].pc = "response_generator",
                          ![i].st = WorkflowResult(sessions[i].st, outcome)]
    /\ UNCHANGED <<pc, state, nl, events, db_output, cache, pa, now, callers>>

session_response_generator(i) ==
    /\ sessions[i].pc = "response_generator"
    /\ \E ok \in BOOLEAN :
          sessions' = [sessions EXCEPT
                          ![i].pc = "cache_update",
                          ![i].st = AugmentedResponseResult(sessions[i].st, ok)]
    /\ UNCHANGED <<pc, state, nl, events, db_output, cache, pa, now, callers>>

\* update_cache of session i; the logger node that follows leaves the cache
session_update_cache(i) ==
    /\ sessions[i].pc = "cache_update"
    /\ cache' = UpdateCacheResult(sessions[i].st, cache)
    /\ sessions' = [sessions EXCEPT ![i].pc = "logger"]
    /\ UNCHANGED <<pc, state, nl, events, db_output, pa, now, callers>>

NextSessions ==
    \E i \in SessionIds :
        \/ session_user_context_agent(i)
        \/ session_cache_agent(i)
        \/ session_workflow(i)
        \/ session_response_generator(i)
        \/ session_update_cache(i)

SpecSessions == InitSessions /\ [][NextSessions]_vars

-----------------------------------------------------------------------------
(* The academic graph with the scheduling of the compiled NL2SQL graph:     *)
(* nl2sql_graph.invoke runs the node that is ready, and every call a node   *)
(* makes returns or raises                                                  *)

NL2SQLNext ==
    \/ search_engineer_node
    \/ senior_sql_writer_node
    \/ senior_qa_engineer_node
    \/ chief_dba_node
    \/ nl2sql_finish

FairSpec == Init /\ [][Next]_vars /\ WF_vars(NL2SQLNext)

-----------------------------------------------------------------------------
(* Properties *)

\* The events of one kind, by position
EventsOf(op) == {i \in DOMAIN events : events[i].op = op}

\* C1: no bound parameter value appears as a quoted literal inside the final
\* statement text execute_query hands to the database; values travel only
\* as parameters.
C1_NoParameterValueInStatementText ==
    \A i \in EventsOf("execute_query") :
        \A j \in DOMAIN events[i].params :
            ~Contains(events[i].out, Quoted(events[i].params[j].v))

\* The names a placeholder {{name}} or :name may carry
PlaceholderNames == {"RA", "ra", "user_id", "periodo_atual", "disciplina_id", "matricula"}

\* A {{name}} left in the text, or a :name no parameter stands for
Unresolved(sql, params) ==
    \E n \in PlaceholderNames :
        \/ Contains(sql, Placeholder2(n))
        \/ Contains(sql, <<ParamRef(n)>>) /\ ~Has(params, n)

\* C2: when the sanitizer leaves a placeholder unresolved the session fails
\* with an error and the database is not called: a statement handed to the
\* database never holds an unresolved placeholder.
C2_UnresolvedPlaceholderFailsFast ==
    /\ \A i \in EventsOf("sanitize") :
          Unresolved(events[i].out, events[i].params)
              => HasError(state) /\ \A j \in EventsOf("rpc") : j < i
    /\ \A i \in EventsOf("execute_query") : ~Unresolved(events[i].out, events[i].params)

\* C3: every call of execute_query is preceded, in the session, by the
\* sanitizer applied to the statement that is executed, and that by dba_guard
\* whose output the sanitizer was given, on every path through the graph.
C3_GuardThenSanitizerBeforeExecution ==
    \A i \in EventsOf("execute_query") :
        \E j \in EventsOf("sanitize") :
            /\ j < i
            /\ events[j].out = events[i].in
            /\ \E g \in EventsOf("dba_guard") : g < j /\ events[g].out = events[j].in

\* C3 witness: the dummy statement of the skip_sql_generation path was executed
C3_SkippedGenerationExecuted ==
    /\ state.skip_sql_generation
    /\ \E i \in EventsOf("execute_query") : Contains(events[i].out, <<"dummy">>)

\* C4: in the revision loop the revision count never exceeds max_revision,
\* which is 2, whatever the reviewer answers.
C4_RevisionCountBounded ==
    /\ nl.revision <= nl.max_revision
    /\ nl.max_revision <= MaxRevision

\* C4 witness: the writer has written its last allowed revision after a reject
C4_LastRevisionWritten ==
    nl.node = "qa_engineer" /\ nl.revision = MaxRevision /\ nl.qa_answer = "reject"

\* The nodes of the NL2SQL graph
LoopNodes == {"search_engineer", "sql_writer", "qa_engineer", "chief_dba"}

\* C5: once the revision loop has started it reaches a terminal state (the
\* graph's END, accepted or exhausted, or the exception that abandons it);
\* no run cycles through writer, reviewer and critique generator forever.
C5_RevisionLoopTerminates ==
    (nl.node \in LoopNodes) ~> (nl.node \notin LoopNodes)

\* C5 witness: the loop ended exhausted, every revision rejected
C5_LoopExhausted ==
    nl.node = "end" /\ ~nl.accepted /\ nl.revision = nl.max_revision

\* C6: a reviewer answer that states no verdict is never taken as an
\* acceptance, neither by qa_engineer nor by query_validator.
C6_ParseFailureNeverAccepted ==
    /\ nl.qa_answer = "none" => ~nl.accepted
    /\ \A i \in EventsOf("query_validator") :
          events[i].in = <<"unparseable">> => events[i].out = <<"rejected">>

\* A statement the read-only channel must refuse: it does not start with
\* SELECT, or holds a statement separator or a comment marker
UnsafeStatement(text) ==
    \/ text = <<>>
    \/ LowerTok(text[1]) # "select"
    \/ \E i \in DOMAIN text : text[i] \in {";", "--", "/*", "*/"}

\* C7 as stated: the executor sends no unsafe statement to the database.
C7_ExecutorSendsNoUnsafeStatement ==
    \A i \in EventsOf("rpc") : ~UnsafeStatement(events[i].in)

\* C7 as amended: execute_query sends every statement to the database
\* function execute_secured_query, and that function raises before EXECUTE
\* for an unsafe statement: no unsafe statement is ever executed.
C7_DatabaseFunctionRefusesUnsafe ==
    /\ \A i \in EventsOf("db_execute") : ~UnsafeStatement(events[i].in)
    /\ \A i \in EventsOf("rpc") : UnsafeStatement(events[i].in) => events[i].out = <<"raised">>

\* C7 witness: an unsafe statement reached the database function and was refused
C7_UnsafeStatementRefused ==
    \E i \in EventsOf("rpc") :
        /\ UnsafeStatement(events[i].in)
        /\ events[i].out = <<"raised">>
        /\ EventsOf("db_execute") = {}

\* C8: every row of the session's result is a row the database returned.
C8_RowsComeFromExecution ==
    \A i \in DOMAIN state.query_results :
        \E j \in DOMAIN db_output : db_output[j] = state.query_results[i]

\* C9: when the database call fails the executor stage ends with an error
\* recorded for the session, not with a rows result.
C9_FailedCallEndsWithError ==
    (pc = "response_generator" /\ \E i \in EventsOf("rpc") : events[i].out = <<"raised">>)
        => HasError(state) /\ ~state.has_query_results

\* C10: gerar_query_sql is called at most twice; once the first execution
\* has failed and the function has moved on, it has been called exactly
\* twice, the second time with the error folded into the question.
C10_WriterReinvokedExactlyOnce ==
    /\ Len(pa.writer_calls) <= 2
    /\ pa.error_str = "" => Len(pa.writer_calls) <= 1
    /\ (pa.error_str # "" /\ pa.pc # "writer2") =>
          /\ Len(pa.writer_calls) = 2
          /\ pa.writer_calls[1] = pa.pergunta
          /\ Contains(pa.writer_calls[2], ErrorFeedback(pa.error_str))
          /\ Contains(pa.writer_calls[2], pa.pergunta)

\* C10 witness: both executions failed and the contingency query was run
C10_SecondExecutionFailed ==
    pa.pc = "done" /\ Len(pa.writer_calls) = 2 /\ Len(pa.executions) = 3

\* Both the first execution and the execution of the regenerated statement raised
BothAttemptsFailed ==
    /\ Len(pa.executions) >= 2
    /\ pa.executions[1].kind = "raise"
    /\ pa.executions[2].kind = "raise"
    /\ Len(pa.writer_calls) = 2

C12_TerminalFailure ==
    (pa.pc = "done" /\ BothAttemptsFailed
       /\ \/ get_fallback_query(pa.tipo_solicitacao, pa.ra) = <<>>
          \/ Len(pa.executions) = 3 /\ pa.executions[3].kind = "raise")
    => pa.result.status = "error" /\ pa.result.data = <<>>

\* C12 witness: all three executions raised
C12_FallbackFailedToo ==
    /\ pa.pc = "done" /\ BothAttemptsFailed
    /\ Len(pa.executions) = 3 /\ pa.executions[3].kind = "raise"
    /\ pa.result.status = "error"

\* A row-limit clause: the keyword LIMIT as a word of the statement
HasRowLimitClause(sql) == \E i \in DOMAIN sql : Lower(sql)[i] = "limit"

IsSelectStatement(sql) == \E i \in DOMAIN sql : Lower(sql)[i] = "select"

EndsWithDefaultRowCap(sql) ==
    Len(sql) >= 3 /\ SubSeq(sql, Len(sql) - 2, Len(sql)) = DefaultRowCap

\* C13: the guard appends the default row cap (100) to every non-aggregate SELECT
\* that has no row-limit clause, and appends none to a SELECT COUNT(...) statement
C13_RowCapOnEveryUncappedSelect ==
    \A i \in EventsOf("dba_guard") :
        LET e == events[i]
        IN /\ (IsSelectStatement(e.in) /\ ~HasRowLimitClause(e.in)
                 /\ ~HasSelectCount(Lower(e.in)))
               => EndsWithDefaultRowCap(e.out)
           /\ HasSelectCount(Lower(e.in))
               => (HasRowLimitClause(e.out) => HasRowLimitClause(e.in))

\* SELECT * FROM ... with neither a WHERE predicate nor a LIMIT clause
UnscopedWildcard(sql) ==
    /\ Contains(Lower(sql), <<"select", "*", "from">>)
    /\ ~\E i \in DOMAIN sql : Lower(sql)[i] \in {"where", "limit"}

\* C14: when the statement the guard receives holds an unscoped wildcard projection
\* without a limiting predicate, the guard rejects the session: an error is recorded
\* and the statement is never executed
C14_GuardRefusesUnscopedWildcard ==
    \A i \in EventsOf("dba_guard") :
        UnscopedWildcard(events[i].in)
          => /\ HasError(state)
             /\ EventsOf("execute_query") = {}

\* C15: sanitization is idempotent: sanitize_and_parameterize_sql applied with the
\* same caller context to a statement it has already sanitized yields the same
\* statement and the same parameters
C15_SanitizationIdempotent ==
    \A i \in EventsOf("sanitize") :
        LET first == events[i]
            again == sanitize_and_parameterize_sql(first.out, state.user_context)
        IN /\ again.sql = first.out
           /\ again.params = first.params

\* C16: a session produces rows or a terminal execution error, never both: when the
\* executor stage has ended, the state never holds an error together with
\* query_results that an execution of this session stored
C16_RowsOrErrorNeverBoth ==
    pc = "response_generator"
      => ~(HasError(state) /\ state.has_query_results /\ EventsOf("execute_query") # {})

\* the executor ran a statement and stored its rows
C16_RowsWithoutError ==
    /\ pc = "response_generator"
    /\ EventsOf("execute_query") # {}
    /\ state.has_query_results /\ state.query_results # <<>>
    /\ ~HasError(state)

\* C17: revision counts the revisions only: it starts at 0 and changes only when the
\* loop goes back from the critique to the writer, so that while no critique has
\* been written (the first candidate is being drafted and reviewed) it is still 0
C17_RevisionCountsRevisionsOnly ==
    (nl.node \in LoopNodes \cup {"end"} /\ nl.reflect = <<>>) => nl.revision = 0

\* C18: when the loop has ended at the ceiling without acceptance, nl2sql_agent hands
\* the last-drafted candidate on as the generated statement and records no error
C18_ExhaustedLoopPassesLastDraft ==
    (pc = "query_validator" /\ nl.node = "end" /\ ~nl.accepted)
      => /\ state.generated_sql = nl.sql
         /\ ~HasError(state)

\* a rejected last draft, at the ceiling, is the generated statement
C18_RejectedDraftHandedOn ==
    /\ pc = "query_validator" /\ nl.node = "end" /\ ~nl.accepted
    /\ nl.revision >= nl.max_revision
    /\ nl.qa_answer = "reject"
    /\ nl.sql # <<>> /\ state.generated_sql = nl.sql
    /\ ~HasError(state)

\* C19: an empty candidate is rejected without a Reviewer call, so the Reviewer is
\* called once for each non-empty candidate and never for an empty one. The nodes
\* chief_dba and END are entered only by a step of the reviewer, which leaves sql as
\* the writer drafted it: there the candidate just reviewed is nl.sql
C19_EmptyCandidateNeverReviewed ==
    (nl.node \in {"chief_dba", "end"} /\ nl.qa_answer # "unset") => nl.sql # <<>>

\* C20: when the cache holds no snapshot and both the RPC and the direct queries
\* fail, get_schema_info does not raise and returns the built-in fallback snapshot
C20_FallbackSnapshotOnIntrospectionFailure ==
    \A i \in EventsOf("get_schema_info") :
        LET call == events[i]
        IN (/\ call.in.lookup = "miss"
            /\ call.in.rpc \in {"error", "raise"}
            /\ call.in.direct \in {"no_tables", "raise"})
             => call.out = [raised |-> FALSE, value |-> get_fallback_schema]

\* C25: the statement the guard receives is the candidate the revision loop ended
\* with: no stage between the loop and the guard puts other text in its place
C25_GuardReceivesLoopCandidate ==
    \A i \in EventsOf("dba_guard") :
        nl.node = "end" => events[i].in = nl.sql

\* The equality tests of a statement against the positional token: the column of each
QuestionColumns(sql) ==
    {sql[j] : j \in {k \in 1..(Len(sql) - 2) : sql[k + 1] = "=" /\ sql[k + 2] = "?"}}

ContextValues(user_context) == {user_context[j].v : j \in DOMAIN user_context}

\* C26: execute_query keeps every filter of the statement it is given: each equality
\* test against a positional ? is, in the text sent to the database, an equality of
\* the same column with a value of the caller context (as the context holds it or as
\* the params argument carries it); none is dropped or turned into a condition that
\* other callers' rows satisfy
C26_PositionalFiltersKept ==
    \A i \in EventsOf("execute_query") :
        \A col \in QuestionColumns(events[i].in) :
            \E v \in ContextValues(state.user_context) \cup ContextValues(events[i].params) :
                Contains(events[i].out, <<col, "=">> \o Quoted(v))

IdentityParams == {"ra", "RA", "user_id"}

\* C28: every identity parameter the sanitizer binds holds an identity value of the
\* caller context (user_id or RA); with neither in the context none is bound
C28_IdentityComesFromContext ==
    \A i \in EventsOf("sanitize") :
        \A j \in DOMAIN events[i].params :
            events[i].params[j].k \in IdentityParams
              => \E key \in {"user_id", "RA"} :
                    /\ Has(state.user_context, key)
                    /\ events[i].params[j].v = Get(state.user_context, key)

\* C27: for a statement with the identity placeholder {{RA}} and a context that holds
\* the identity, the sanitizer puts one parameter reference in the place of the whole
\* placeholder and binds it: no brace of the placeholder is left in the statement
C27_IdentityPlaceholderReplacedWhole ==
    \A i \in EventsOf("sanitize") :
        (/\ Contains(events[i].in, Placeholder2("RA"))
         /\ (Has(state.user_context, "user_id") \/ Has(state.user_context, "RA")))
          => /\ \A j \in DOMAIN events[i].out : events[i].out[j] \notin {"{", "}"}
             /\ \E j \in DOMAIN events[i].params : events[i].params[j].k \in IdentityParams

\* C29: the row cap the guard adds reaches the database: when the guard has appended
\* LIMIT 100 to a statement without a limit, the text execute_query sends still has it
C29_RowCapReachesDatabase ==
    \A i \in EventsOf("dba_guard") :
        (EndsWithDefaultRowCap(events[i].out) /\ ~HasRowLimitClause(events[i].in))
          => \A j \in EventsOf("execute_query") :
                Contains(events[j].out, <<"LIMIT", "100">>)

\* C21: whatever the introspection calls and the cache operations do, the snapshot
\* get_schema_info returns holds at least one table
C21_SnapshotNeverEmpty ==
    \A i \in EventsOf("get_schema_info") :
        ~events[i].out.raised => events[i].out.value.tables # <<>>

\* The snapshot the slot held when the call looked it up came from an introspection
\* that worked
HeldGoodSnapshot(call) ==
    call.in.stored # <<>> /\ call.in.stored[1].data = LiveSchema

\* The RPC failed and the direct queries failed
IntrospectionFailed(call) ==
    call.in.rpc \in {"error", "raise"} /\ call.in.direct \in {"no_tables", "raise"}

\* C22: when introspection fails and the slot holds a snapshot that an earlier
\* introspection fetched, get_schema_info returns that snapshot, not the fallback
C22_LastGoodSnapshotPreferred ==
    \A i \in EventsOf("get_schema_info") :
        (HeldGoodSnapshot(events[i]) /\ IntrospectionFailed(events[i]))
          => events[i].out = [raised |-> FALSE, value |-> LiveSchema]

\* C23: a snapshot cached at time t is served from the cache, with no call to the
\* database, by every call made before t + SCHEMA_CACHE_TTL, and by none made after
C23_ServedForSchemaTTL ==
    \A i \in EventsOf("get_schema_info") :
        LET call == events[i]
        IN (call.in.stored # <<>> /\ call.in.lookup # "raise")
             => (call.in.lookup = "hit"
                   <=> call.in.at < call.in.stored[1].timestamp + SCHEMA_CACHE_TTL)

\* The threads that are re-introspecting the schema or about to write the slot
Refreshing == {t \in Threads : callers[t].pc \in {"introspect", "set_cache"}}

\* C24: the schema cache is refreshed under a single writer: at no time is more than
\* one session between its failed lookup and its write of the slot
C24_SingleWriterRefresh == Cardinality(Refreshing) <= 1

\* C30: in any interleaving of sessions, the entry cache_agent serves to a
\* session as a cache hit was written by a session of the same user_id
C30_CacheHitFromOwnUserOnly ==
    \A i \in SessionIds :
        \A n \in DOMAIN sessions[i].served_by :
            sessions[i].served_by[n] = sessions[i].st.user_id

\* a session looked up, after a session of another user had cached its
\* answer to the same question under the same periodo_atual and curso_id,
\* and was served nothing
C30_OtherUsersEntryNotServed ==
    \E i, j \in SessionIds :
        /\ sessions[i].st.user_id # sessions[j].st.user_id
        /\ sessions[j].pc = "logger"
        /\ Has(cache, get_cache_key(sessions[j].st.user_query, sessions[j].st.user_context))
        /\ get_cache_key_without_user_id(sessions[i].st.user_query, sessions[i].st.user_context)
             = get_cache_key_without_user_id(sessions[j].st.user_query, sessions[j].st.user_context)
        /\ sessions[i].pc \in {"main_router", "response_generator", "cache_update", "logger"}
        /\ sessions[i].entries_seen > 0
        /\ sessions[i].served_by = <<>>

\* C31: on a revision the writer's prompt carries the critique chief_dba
\* produced last, and chief_dba produced it for the candidate the reviewer had
\* just rejected
C31_RevisionGivenLatestCritique ==
    (pc = "sql_generator" /\ nl.node = "qa_engineer" /\ nl.revision > 1)
        => /\ nl.reflect # <<>>
           /\ \E n \in DOMAIN nl.feedback : nl.feedback[n] = nl.reflect[Len(nl.reflect)]
           /\ nl.critique_sql = nl.rejected

\* the writer has answered a call that followed a rejection and a critique
C31_RevisionWritten ==
    /\ pc = "sql_generator" /\ nl.node = "qa_engineer" /\ nl.revision > 1
    /\ nl.rejected # <<>>
    /\ nl.feedback # <<>>

\* C32: a call of the generator that fails in the writer is an empty candidate
\* handed to the revision loop: every step of the writer passes a candidate
\* on to the reviewer and leaves the session without an error
C32_WriterFailureIsEmptyCandidate ==
    [][(pc = "sql_generator" /\ nl.node = "sql_writer")
          => (~HasError(state') /\ pc' = "sql_generator" /\ nl'.node = "qa_engineer")]_vars

\* C33: once the session carries an error, a step of schema_retriever,
\* nl2sql_agent, query_validator, dba_guard or executor_agent calls neither
\* the generator nor the database and leaves generated_sql, query_results
\* and the error as they are
C33_ErrorFreezesPipeline ==
    [][(/\ pc \in {"schema_retriever", "sql_generator", "query_validator",
                    "dba_guard", "executor"}
        /\ HasError(state))
          => /\ state'.generated_sql = state.generated_sql
             /\ state'.query_results = state.query_results
             /\ state'.has_query_results = state.has_query_results
             /\ state'.error = state.error
             /\ events' = events
             /\ nl' = nl]_vars

\* C34: update_cache of a session that carries an error, or that was served
\* from the cache, leaves the response cache unchanged; an entry is written
\* only by update_cache of a session without error that was not served from it
C34_OnlyFreshErrorFreeSessionsWrite ==
    [][/\ \A i \in SessionIds :
             (/\ sessions[i].pc = "cache_update"
              /\ sessions'[i].pc = "logger"
              /\ HasError(sessions[i].st) \/ sessions[i].st.from_cache)
                => cache' = cache
       /\ cache' # cache =>
             \E i \in SessionIds :
                /\ sessions[i].pc = "cache_update"
                /\ sessions'[i].pc = "logger"
                /\ ~HasError(sessions[i].st)
                /\ ~sessions[i].st.from_cache]_vars

\* a session with an error, or one served from the cache, has passed
\* update_cache, and the cache holds nothing but the entry the other
\* session computed
C34_ErrorAndHitLeftCacheAlone ==
    \E i, j \in SessionIds :
        /\ sessions[i].pc = "logger" /\ sessions[j].pc = "logger"
        /\ HasError(sessions[i].st) \/ sessions[i].st.from_cache
        /\ ~HasError(sessions[j].st) /\ ~sessions[j].st.from_cache
        /\ Len(cache) = 1
        /\ cache[1].v.natural_response = sessions[j].st.natural_response
        /\ cache[1].v.intent = sessions[j].st.intent

\* C35: every entry of the response cache holds a non-empty natural_response
C35_CachedAnswerNeverEmpty ==
    \A i \in DOMAIN cache : cache[i].v.natural_response # ""

\* C36: dba_guard applied to the statement it wrote leaves it as it is: no
\* second LIMIT clause and no second semicolon, for aggregate statements and
\* the others alike
C36_GuardIdempotent ==
    \A i \in DOMAIN events :
        i > 1 => /\ events[i].in = events[i - 1].out
                 /\ events[i].out = events[i].in

\* dba_guard has been applied twice to a statement it capped the first time
C36_CappedStatementGuardedAgain ==
    /\ Len(events) = 2
    /\ events[1].out = RStripSemicolons(events[1].in) \o DefaultRowCap
    /\ events[2].in = events[1].out
    /\ state.generated_sql = events[2].out

\* C37: in one session the main-router classification is performed exactly
\* once, and the branch taken out of main_router is the one of the
\* main_category recorded in the state
C37_ClassifiedOnceAndRoutedAccordingly ==
    /\ Cardinality(EventsOf("main_router_agent")) <= 1
    /\ pc \in {"emotional_support", "tutor", "planning", "intent_router"}
          => /\ Cardinality(EventsOf("main_router_agent")) = 1
             /\ pc = RouteOf(state.main_category)

====
